---------------------------- MODULE Spec2Model ----------------------------
(***************************************************************************)
(* Model of the mom bot's channel-scoped job orchestration                 *)
(* (packages/mom/src/feishu.ts and packages/mom/src/main.ts, Feishu        *)
(* platform): the per-channel ChannelQueue, the channelStates registry,    *)
(* handleEvent / handleStop, and the per-run context whose edits are       *)
(* chained on updatePromise.                                               *)
(*                                                                         *)
(* Scheduling model: one JavaScript thread.  An action is what runs        *)
(* between two suspension points (an awaited transport call, the awaited   *)
(* agent run); promise continuations that are already runnable run before  *)
(* any new inbound event is dispatched.                                    *)
(*                                                                         *)
(* Message ids are naturals; 0 stands for every falsy id of the code       *)
(* (null, undefined, the "" a failed postMessage returns).  An outgoing    *)
(* text is the sequence of the pieces it is concatenated from, so that     *)
(* JavaScript's + is \o and the empty string is << >>.  The log.* console  *)
(* functions and logToFile of handleMessageEvent are taken to return       *)
(* normally.                                                               *)
(***************************************************************************)
EXTENDS Integers, Sequences, FiniteSets, TLC

\* ------------------------------------------------------------------ bounds
\* Jobs accepted over a behaviour (all channels together), in Spec.
MaxJobs == 2
\* Jobs accepted over a behaviour, in SpecQueue.
MaxQueued == 3
\* Jobs accepted over a behaviour, in SpecAcc.
MaxRuns == 1
\* Context calls the agent runs make over a behaviour.
MaxOps == 2
\* Events enqueueEvent discards over a behaviour.
MaxDiscards == 1
\* Jobs accepted over a behaviour, in SpecCap.
MaxBacklog == 7
\* Stop requests whose "Stopping..." post is in flight or delivered.
MaxStops == 1
\* Transport calls that fail over a behaviour.
MaxFaults == 1
\* Command-line invocations (--daemon, --stop-daemon, --status) over a behaviour.
MaxInvocations == 3
\* Daemon children spawned over a behaviour.
MaxSpawns == 2
\* Filesystem and spawn calls of the supervisor that fail over a behaviour.
MaxOsFaults == 1

Channels == {"C1", "C2"}

\* ------------------------------------------------------------ event texts
\* Inbound text is a sequence of characters, so that toLowerCase and trim
\* are computed and not assumed.
lower(ch) ==
  CASE ch = "S" -> "s" [] ch = "T" -> "t" [] ch = "O" -> "o" [] ch = "P" -> "p"
    [] OTHER -> ch

toLowerCase(s) == [i \in 1..Len(s) |-> lower(s[i])]

RECURSIVE trimStart(_)
trimStart(s) == IF s # <<>> /\ Head(s) = " " THEN trimStart(Tail(s)) ELSE s

RECURSIVE trimEnd(_)
trimEnd(s) ==
  IF s # <<>> /\ s[Len(s)] = " " THEN trimEnd(SubSeq(s, 1, Len(s) - 1)) ELSE s

trim(s) == trimEnd(trimStart(s))

StopWord == <<"s", "t", "o", "p">>

\* Variant: the comparison without toLowerCase.
isStopCommandExact(text) == trim(text) = StopWord

\* feishu.ts:242  feishuEvent.text.toLowerCase().trim() === "stop"
\* (feishuEvent.text is text.trim(), feishu.ts:234)
isStopCommand(text) == trim(toLowerCase(trim(text))) = StopWord

EventTexts ==
  { <<"s", "t", "o", "p">>,
    <<" ", "S", "T", "o", "p", " ">>,
    <<"s", "t", "o", "p", "!">> }

\* The bot's open_id is never assigned (feishu.ts:114).
NoId == "null"
botOpenId == NoId

\* message.mentions: absent, or an array of the open_ids it lists.
MentionsInputs ==
  { [present |-> FALSE, ids |-> {}],
    [present |-> TRUE, ids |-> {}],
    [present |-> TRUE, ids |-> {"ou_user"}] }

\* feishu.ts:264-273
isBotMentioned(mentions) ==
  IF botOpenId # NoId THEN \E m \in mentions.ids : m = botOpenId ELSE TRUE

InboundEvents ==
  [ valid : {TRUE}, senderType : {"user"}, chatType : {"group"},
    mentions : MentionsInputs, text : EventTexts ]
  \cup
  [ valid : {TRUE}, senderType : {"user"}, chatType : {"p2p"},
    mentions : {[present |-> FALSE, ids |-> {}]}, text : EventTexts ]
  \cup
  [ valid : {TRUE}, senderType : {"app"}, chatType : {"p2p"},
    mentions : {[present |-> FALSE, ids |-> {}]}, text : {StopWord} ]
  \cup
  [ valid : {FALSE}, senderType : {"user"}, chatType : {"p2p"},
    mentions : {[present |-> FALSE, ids |-> {}]}, text : {StopWord} ]

\* ------------------------------------------------------------------- state
VARIABLES
  queues,         \* FeishuBot.queues: key -> ChannelQueue {queue, processing}
  channelStates,  \* main.ts channelStates: channel -> ChannelState
  runner,         \* per channel AgentRunner: abort signalled to the run in progress
  jobs,           \* every work item accepted so far, in order of acceptance
  ctxs,           \* the context (accumulator) of each job's run
  msgs,           \* per channel: the messages the chat platform holds
  notice,         \* the reply the step just taken posted outside any context
  faults,         \* transport calls that have failed
  agentOps,       \* context calls made by agent runs
  lastFinished,   \* history: the handleEvent that ended last, and how
  stopPosts,      \* per channel: handleStop "Stopping..." posts in flight
  started,        \* history: job ids in the order their work was invoked
  called,         \* history: the context calls of agent runs, in call order
  discarded,      \* history: events enqueueEvent has discarded
  pidFile,        \* <dir>/mom.pid: whether it exists, and its characters
  processes,      \* pids of the live daemon children of this directory
  signals,        \* pids a SIGTERM was sent to and has not been handled by
  spawned,        \* daemon children spawned so far; pids are handed out in order
  owner,          \* per daemon child: the user whose start spawned it
  cli,            \* the command-line invocations: command, position, locals, exit
  invoked,        \* command-line invocations made so far
  osFaults        \* filesystem and spawn calls that have failed

botVars ==
  <<queues, channelStates, runner, jobs, ctxs, msgs, notice, faults, agentOps,
    lastFinished, stopPosts, started, called, discarded>>

daemonVars == <<pidFile, processes, signals, spawned, owner, cli, invoked, osFaults>>

vars ==
  <<queues, channelStates, runner, jobs, ctxs, msgs, notice, faults, agentOps,
    lastFinished, stopPosts, started, called, discarded,
    pidFile, processes, signals, spawned, owner, cli, invoked, osFaults>>

JobIds == 1..Len(jobs)

workingIndicator == <<" ...">>

NewQueue == [queue |-> <<>>, processing |-> FALSE]

\* main.ts:372-377; exists = the map has the key
NoState ==
  [exists |-> FALSE, running |-> FALSE, stopRequested |-> FALSE, stopMessageTs |-> 0]

\* main.ts:615-620
NewContext ==
  [ messageId |-> 0,
    threadMessageIds |-> <<>>,
    accumulatedText |-> <<>>,
    isWorking |-> TRUE,
    pipe |-> <<>>,        \* steps chained on updatePromise, not yet run
    active |-> {},        \* steps running (suspended in a transport call)
    issued |-> 0,         \* steps chained so far
    settled |-> 0,        \* steps whose promise has settled
    rejected |-> FALSE ]  \* updatePromise is a rejected promise

NoNotice == [channel |-> "", text |-> <<>>]

\* Number.NaN and null, as values no pid equals.
NaN == -1
null == -2

\* No mom.pid.
NoFile == [exists |-> FALSE, content |-> <<>>]

Invocations == {1, 2}

\* A shell in which no mom command has been run.
NoInvocation ==
  [ cmd |-> "none", pc |-> "idle", seq |-> 0, user |-> "", pid |-> null,
    child |-> null, code |-> 0, said |-> "", erred |-> FALSE ]

BotInit ==
  /\ queues = [k \in Channels |-> NewQueue]
  /\ channelStates = [c \in Channels |-> NoState]
  /\ runner = [c \in Channels |-> FALSE]
  /\ jobs = <<>>
  /\ ctxs = <<>>
  /\ msgs = [c \in Channels |-> <<>>]
  /\ notice = NoNotice
  /\ faults = 0
  /\ agentOps = 0
  /\ lastFinished = [job |-> 0, caught |-> FALSE]
  /\ stopPosts = [c \in Channels |-> 0]
  /\ started = <<>>
  /\ called = <<>>
  /\ discarded = 0

NoDaemon ==
  /\ processes = {}
  /\ signals = {}
  /\ spawned = 0
  /\ owner = <<>>
  /\ cli = [i \in Invocations |-> NoInvocation]
  /\ invoked = 0
  /\ osFaults = 0

Init == BotInit /\ NoDaemon /\ pidFile = NoFile

\* The part of the state the synchronous helpers below transform.
World ==
  [ queues |-> queues, channelStates |-> channelStates, runner |-> runner,
    jobs |-> jobs, ctxs |-> ctxs, started |-> started,
    lastFinished |-> lastFinished ]

Commit(w) ==
  /\ queues' = w.queues
  /\ channelStates' = w.channelStates
  /\ runner' = w.runner
  /\ jobs' = w.jobs
  /\ ctxs' = w.ctxs
  /\ started' = w.started
  /\ lastFinished' = w.lastFinished

\* A job between the invocation of its work item and the end of handleEvent.
InFlightPcs == {"setTyping", "setWorking", "run", "finalWorking", "stopped"}
InFlight(j) == jobs[j].pc \in InFlightPcs

\* ------------------------------------------------- context: updatePromise
\* updatePromise = updatePromise.then(step): on a rejected promise the
\* callback is skipped and the new promise is rejected at once.
chain(cx, step) ==
  IF cx.rejected
  THEN [cx EXCEPT !.issued = @ + 1, !.settled = @ + 1]
  ELSE [cx EXCEPT !.pipe = Append(@, [step EXCEPT !.n = cx.issued + 1]),
                  !.issued = @ + 1]

Step(op, text, flag) == [op |-> op, text |-> text, flag |-> flag, n |-> 0]

\* main.ts:685
typingText(eventFilename) ==
  IF eventFilename # "" THEN <<"Starting event: ", eventFilename>>
  ELSE <<"Thinking...">>

\* The synchronous part of a context method: what it chains.
\* setTyping chains only when isTyping && !messageId (main.ts:682).
ctxCall(cx, step) ==
  IF step.op = "setTyping"
  THEN IF step.flag /\ cx.messageId = 0 THEN chain(cx, step) ELSE cx
  ELSE chain(cx, step)

\* Variant: the buffer is shown without the working indicator.
displayTextBare(cx) == cx.accumulatedText

\* main.ts:643, 661, 701
displayText(cx) ==
  IF cx.isWorking THEN cx.accumulatedText \o workingIndicator
  ELSE cx.accumulatedText

Call(kind, id, text) == [kind |-> kind, id |-> id, text |-> text]

\* The step suspends in a transport call.
issue(cx, step, i, call) ==
  [cx EXCEPT !.active = @ \cup
     {[n |-> step.n, op |-> step.op, text |-> step.text, flag |-> step.flag,
       i |-> i, call |-> call]}]

settle(cx) == [cx EXCEPT !.settled = @ + 1]

\* A step threw: updatePromise is rejected and every step chained on it is
\* skipped.
reject(cx) == [cx EXCEPT !.rejected = TRUE, !.settled = cx.issued, !.pipe = <<>>]

\* Variant: every edit posts a new message.
postAlways(cx, step) == issue(cx, step, 0, Call("post", 0, displayText(cx)))

\* main.ts:645-649, 662-666
editOrPost(cx, step) ==
  IF cx.messageId # 0
  THEN issue(cx, step, 0, Call("update", cx.messageId, displayText(cx)))
  ELSE issue(cx, step, 0, Call("post", 0, displayText(cx)))

\* Variant: only the primary message is deleted.
deletePrimaryOnly(cx, step, i) ==
  IF cx.messageId # 0
  THEN issue(cx, step, 0, Call("delete", cx.messageId, <<>>))
  ELSE settle(cx)

\* main.ts:710-721, from thread reply i downwards
deleteFrom(cx, step, i) ==
  IF i >= 1
  THEN issue(cx, step, i, Call("delete", cx.threadMessageIds[i], <<>>))
  ELSE LET cx1 == [cx EXCEPT !.threadMessageIds = <<>>]
       IN IF cx1.messageId # 0
          THEN issue(cx1, step, 0, Call("delete", cx1.messageId, <<>>))
          ELSE settle(cx1)

\* Variant: respond overwrites the buffer.
accumulateOnly(accumulatedText, text) == text

\* Variant: the new text is put in front of the buffer.
accumulateInFront(accumulatedText, text) ==
  IF accumulatedText # <<>> THEN text \o <<"\n">> \o accumulatedText ELSE text

\* main.ts:642
accumulate(accumulatedText, text) ==
  IF accumulatedText # <<>> THEN accumulatedText \o <<"\n">> \o text ELSE text

\* The callback of a chained step, up to its first await.
runStep(cx, step) ==
  CASE step.op = "respond" ->
         editOrPost([cx EXCEPT !.accumulatedText = accumulate(@, step.text)], step)
    [] step.op = "replaceMessage" ->
         editOrPost([cx EXCEPT !.accumulatedText = step.text], step)
    [] step.op = "respondInThread" ->
         IF cx.messageId # 0
         THEN issue(cx, step, 0, Call("reply", cx.messageId, step.text))
         ELSE settle(cx)
    [] step.op = "setTyping" ->
         IF cx.messageId = 0
         THEN LET cx1 == [cx EXCEPT !.accumulatedText = step.text]
              IN issue(cx1, step, 0,
                       Call("post", 0, cx1.accumulatedText \o workingIndicator))
         ELSE settle(cx)
    [] step.op = "setWorking" ->
         LET cx1 == [cx EXCEPT !.isWorking = step.flag]
         IN IF cx1.messageId # 0
            THEN issue(cx1, step, 0, Call("update", cx1.messageId, displayText(cx1)))
            ELSE settle(cx1)
    [] step.op = "deleteMessage" ->
         deleteFrom(cx, step, Len(cx.threadMessageIds))

\* Variant: the callbacks are not chained, each runs when it is called.
chainReadyAtOnce(cx) == TRUE

\* A chained callback runs once the promise it is chained on has settled:
\* no earlier step is still running.
chainReady(cx) == cx.active = {}

\* Every chained callback that can run now runs, up to its first await.
RECURSIVE drain(_)
drain(cx) ==
  IF cx.pipe # <<>> /\ chainReady(cx)
  THEN drain(runStep([cx EXCEPT !.pipe = Tail(@)], Head(cx.pipe)))
  ELSE cx

\* -------------------------------------------------- ChannelQueue, registry
NoCall == Call("none", 0, <<>>)

NewJob(c, eventFilename) ==
  [ channel |-> c,
    eventFilename |-> eventFilename,  \* isEvent and text.match(/^\[EVENT:([^:]+):/)
    messageId |-> "",     \* FeishuEvent.messageId; "" for the events watcher (feishu.ts:421)
    pc |-> "queued",
    await |-> 0,          \* the step of its context handleEvent awaits
    result |-> "none",    \* stopReason of the run
    signalled |-> FALSE,  \* history: abort was signalled to the run
    call |-> NoCall ]     \* the "Stopped" transport call in flight

\* A work item that has settled is garbage: only its channel is kept.
Settled(job, pc) ==
  [NewJob(job.channel, "") EXCEPT !.pc = pc, !.messageId = job.messageId]

\* A context nothing refers to any more: its run has ended and no step of it
\* is chained or running.
idle(cx) == cx.pipe = <<>> /\ cx.active = {}
collect(cx, job) ==
  IF job.pc = "done" /\ idle(cx) THEN [NewContext EXCEPT !.rejected = cx.rejected]
  ELSE cx

\* Variant: every channel is given the queue of C1.
getQueueShared(channelId) == "C1"

\* feishu.ts:440-447: one ChannelQueue per channel id
getQueue(channelId) == channelId

\* main.ts:368-381
getState(st) == IF st.exists THEN st ELSE [NoState EXCEPT !.exists = TRUE]

\* Variant: a channel that has a state is reported running.
isRunningHasState(st) == st.exists

\* Variant: the query always reports idle.
isRunningNever(st) == FALSE

\* main.ts:729-732
isRunning(st) == st.exists /\ st.running

\* Variant: stopRequested is left as the last run left it.
startRunKeepStop(st) == [st EXCEPT !.running = TRUE]

\* main.ts:749-750
startRun(st) == [st EXCEPT !.running = TRUE, !.stopRequested = FALSE]

\* Variant: running is reset at the end of the try block, not in finally.
releaseInTry(st, caught) == IF caught THEN st ELSE [st EXCEPT !.running = FALSE]

\* main.ts:772-774: finally, whether or not the catch block ran
release(st, caught) == [st EXCEPT !.running = FALSE]

\* Variant: the context starts out holding a message id.
contextWithMessage(job) == [NewContext EXCEPT !.messageId = 1]

\* main.ts:614-620, 755: a context of its own for every handleEvent
createFeishuContext(job) == NewContext

\* main.ts:746-757: handleEvent up to its first await
handleEvent(w, j) ==
  LET c == w.jobs[j].channel
      cx == drain(ctxCall(createFeishuContext(w.jobs[j]),
                 Step("setTyping", typingText(w.jobs[j].eventFilename), TRUE)))
  IN [w EXCEPT !.channelStates[c] = startRun(getState(@)),
               !.ctxs[j] = cx,
               !.jobs[j].pc = "setTyping",
               !.jobs[j].await = cx.issued]

\* Variant: processNext does not look at the processing flag.
processNextUnguarded(q) == q.queue = <<>>

\* feishu.ts:92
processNextReturns(q) == q.processing \/ q.queue = <<>>

\* Variant: the head is read and left in the queue.
peek(queue) == [work |-> Head(queue), rest |-> queue]

\* Variant: this.queue.pop()
pop(queue) ==
  [work |-> queue[Len(queue)], rest |-> SubSeq(queue, 1, Len(queue) - 1)]

\* feishu.ts:94  this.queue.shift()
shift(queue) == [work |-> Head(queue), rest |-> Tail(queue)]

\* Variant: "await work()" without try/catch.
afterWorkUncaught(q, rejected) == IF rejected THEN q ELSE [q EXCEPT !.processing = FALSE]

\* feishu.ts:95-100: the work item settled, rejected or not
afterWork(q, rejected) == [q EXCEPT !.processing = FALSE]

\* feishu.ts:91-102.  getStateThrows: getState (main.ts:747) throws when it
\* has to create the channel's state; handleEvent then rejects before its
\* first await, the rejection is caught and processNext runs again.
RECURSIVE processNext(_, _, _)
processNext(w, k, getStateThrows) ==
  IF processNextReturns(w.queues[k]) THEN w
  ELSE LET s == shift(w.queues[k].queue)
           j == s.work
           w1 == [w EXCEPT !.queues[k] = [queue |-> s.rest, processing |-> TRUE],
                           !.started = Append(@, j)]
       IN IF getStateThrows /\ ~w.channelStates[w.jobs[j].channel].exists
          THEN processNext([w1 EXCEPT !.jobs[j] = Settled(@, "rejected"),
                                      !.queues[k] = afterWork(@, TRUE)],
                           k, getStateThrows)
          ELSE handleEvent(w1, j)

\* feishu.ts:82-85
enqueue(w, k, job, getStateThrows) ==
  LET j == Len(w.jobs) + 1
  IN processNext([w EXCEPT !.jobs = Append(@, job),
                           !.ctxs = Append(@, NewContext),
                           !.queues[k].queue = Append(@, j)],
                 k, getStateThrows)

\* feishu.ts:87-89
size(q) == Len(q.queue)

QueueCap == 5

\* The end of handleEvent (main.ts:770-775) and the continuation of
\* processNext after "await work()" (feishu.ts:100-101).  The channel has its
\* state by now, so getState does not throw for the same channel's next job.
finish(w, j, caught) ==
  LET c == w.jobs[j].channel
      k == getQueue(c)
  IN processNext([w EXCEPT !.channelStates[c] = release(@, caught),
                           !.jobs[j] = Settled(@, "done"),
                           !.ctxs[j] = collect(@, Settled(w.jobs[j], "done")),
                           !.lastFinished = [job |-> j, caught |-> caught],
                           !.queues[k] = afterWork(@, FALSE)],
                 k, TRUE)

AwaitingPcs == {"setTyping", "setWorking", "finalWorking"}

\* Variant: the test is 'result.stopReason === "aborted"' alone.
stoppedOnAbort(stopReason, st) == stopReason = "aborted"

\* main.ts:762
stopped(stopReason, st) == stopReason = "aborted" /\ st.stopRequested

\* Variant: the context call is made without await.
notAwaited(cx, n) == TRUE

\* main.ts:757-760  await ctx.setTyping / setWorking: step n has settled
stepSettled(cx, n) == cx.settled >= n

\* main.ts:757-775: handleEvent of job j resumes as far as it can once the
\* context step it awaits has settled.
RECURSIVE continue(_, _)
continue(w, j) ==
  LET job == w.jobs[j]
      cx == w.ctxs[j]
      st == w.channelStates[job.channel]
  IN IF job.pc \notin AwaitingPcs \/ ~stepSettled(cx, job.await) THEN w
     ELSE IF cx.rejected THEN finish(w, j, TRUE)
     ELSE CASE job.pc = "setTyping" ->
                 LET cx1 == drain(ctxCall(cx, Step("setWorking", <<>>, TRUE)))
                 IN continue([w EXCEPT !.ctxs[j] = cx1,
                                       !.jobs[j].pc = "setWorking",
                                       !.jobs[j].await = cx1.issued], j)
            [] job.pc = "setWorking" ->
                 \* state.runner.run(ctx, state.store) begins
                 [w EXCEPT !.jobs[j].pc = "run", !.runner[job.channel] = FALSE]
            [] job.pc = "finalWorking" ->
                 IF stopped(job.result, st)
                 THEN [w EXCEPT !.jobs[j].pc = "stopped", !.jobs[j].call =
                         IF st.stopMessageTs # 0
                         THEN Call("update", st.stopMessageTs, <<"Stopped">>)
                         ELSE Call("post", 0, <<"Stopped">>)]
                 ELSE finish(w, j, FALSE)

\* ------------------------------------------------------------- transport
Message(text, by, parent) ==
  [text |-> text, by |-> by, parent |-> parent, deleted |-> FALSE]

\* Messages of handleStop / handleEvent themselves (by = 0), not of a context.
Stoppings(c) == {i \in 1..Len(msgs[c]) : msgs[c][i].by = 0}

RECURSIVE Sum(_, _)
Sum(f, S) == IF S = {} THEN 0 ELSE LET x == CHOOSE y \in S : TRUE
                                   IN f[x] + Sum(f, S \ {x})

StopCount == Sum([c \in Channels |-> stopPosts[c] + Cardinality(Stoppings(c))], Channels)

\* feishu.ts:291-308 with the result ignored by the caller (feishu.ts:246, 258)
postNotice(c, text, ok) ==
  notice' = IF ok THEN [channel |-> c, text |-> text] ELSE NoNotice

\* A transport call fails (ok = FALSE) at most MaxFaults times.
Outcome(ok) ==
  /\ ~ok => faults < MaxFaults
  /\ faults' = IF ok THEN faults ELSE faults + 1

\* feishu.ts:310-324: an update of a message the platform no longer holds fails
updated(ms, id, text, ok) ==
  IF ok /\ id \in 1..Len(ms) /\ ~ms[id].deleted
  THEN [ms EXCEPT ![id].text = text] ELSE ms

\* feishu.ts:326-336
deleted(ms, id, ok) ==
  IF ok /\ id \in 1..Len(ms) THEN [ms EXCEPT ![id].deleted = TRUE] ELSE ms

\* ------------------------------------------------------ inbound events
\* feishu.ts:183-191: malformed events and the bot's own messages are skipped
accepted(ev) == ev.valid /\ ev.senderType # "app"

\* feishu.ts:252: a group message must carry mentions naming the bot
addressed(ev) ==
  ev.chatType = "p2p" \/ (ev.mentions.present /\ isBotMentioned(ev.mentions))

\* feishu.ts:177-262, the paths that return without any effect
MessageDropped(c, ev) ==
  /\ ~accepted(ev) \/ (~isStopCommand(ev.text) /\ ~addressed(ev))
  /\ notice' = NoNotice
  /\ UNCHANGED <<queues, channelStates, runner, jobs, ctxs, msgs, faults, agentOps,
                 lastFinished, stopPosts, started, called, discarded, daemonVars>>

\* Variant: the test is "if (state)".
stopAppliesHasState(st) == st.exists

\* main.ts:736  state?.running
stopApplies(st) == st.exists /\ st.running

\* Variant: the stop also marks the channel idle.
requestStopAndRelease(st) == [st EXCEPT !.stopRequested = TRUE, !.running = FALSE]

\* main.ts:737
requestStop(st) == [st EXCEPT !.stopRequested = TRUE]

\* main.ts:734-744: handler.handleStop, up to its await, with at most
\* maxStops stop requests honoured in all
handleStop(c, ok, maxStops) ==
  IF stopApplies(channelStates[c])
  THEN /\ StopCount < maxStops
       /\ ok
       /\ channelStates' = [channelStates EXCEPT ![c] = requestStop(@)]
       /\ runner' = [runner EXCEPT ![c] = TRUE]
       /\ stopPosts' = [stopPosts EXCEPT ![c] = @ + 1]
       /\ notice' = NoNotice
       /\ UNCHANGED <<queues, jobs, ctxs, msgs, faults, agentOps,
                      lastFinished, started, called, discarded, daemonVars>>
  ELSE /\ postNotice(c, <<"Nothing running">>, ok)
       /\ Outcome(ok)
       /\ UNCHANGED <<queues, channelStates, runner, jobs, ctxs, msgs, agentOps,
                      lastFinished, stopPosts, started, called, discarded, daemonVars>>

HandleStop(c, ok) == handleStop(c, ok, MaxStops)

\* feishu.ts:241-249: the stop branch of handleMessageEvent
StopCommand(c, ev, ok) ==
  /\ accepted(ev)
  /\ isStopCommand(ev.text)
  /\ IF isRunning(channelStates[c])
     THEN HandleStop(c, ok)
     ELSE /\ postNotice(c, <<"_Nothing running_">>, ok)
          /\ Outcome(ok)
          /\ UNCHANGED <<queues, channelStates, runner, jobs, ctxs, msgs, agentOps,
                         lastFinished, stopPosts, started, called, discarded, daemonVars>>

\* main.ts:739-740: the "Stopping..." post of handleStop returns
StopPostReturn(c, ok) ==
  /\ stopPosts[c] > 0
  /\ Outcome(ok)
  /\ stopPosts' = [stopPosts EXCEPT ![c] = @ - 1]
  /\ msgs' = IF ok THEN [msgs EXCEPT ![c] = Append(@, Message(<<"Stopping...">>, 0, 0))]
             ELSE msgs
  /\ channelStates' =
       [channelStates EXCEPT ![c].stopMessageTs = IF ok THEN Len(msgs[c]) + 1 ELSE 0]
  /\ notice' = NoNotice
  /\ UNCHANGED <<queues, runner, jobs, ctxs, agentOps, lastFinished, started, called,
                 discarded, daemonVars>>

\* feishu.ts:256-258
BusyReply(c, ev, ok) ==
  /\ accepted(ev) /\ ~isStopCommand(ev.text) /\ addressed(ev)
  /\ isRunning(channelStates[c])
  /\ postNotice(c, <<"Already working. Say stop to cancel.">>, ok)
  /\ Outcome(ok)
  /\ UNCHANGED <<queues, channelStates, runner, jobs, ctxs, msgs, agentOps,
                 lastFinished, stopPosts, started, called, discarded, daemonVars>>

\* feishu.ts:235: message.message_id; the deliveries of InboundEvents are
\* told apart by their content alone and carry none.
messageIdOf(ev) == IF "messageId" \in DOMAIN ev THEN ev.messageId ELSE ""

\* feishu.ts:259-260
MessageEnqueued(c, ev, getStateThrows, maxJobs) ==
  /\ accepted(ev) /\ ~isStopCommand(ev.text) /\ addressed(ev)
  /\ ~isRunning(channelStates[c])
  /\ Len(jobs) < maxJobs
  /\ Commit(enqueue(World, getQueue(c),
                    [NewJob(c, "") EXCEPT !.messageId = messageIdOf(ev)],
                    getStateThrows))
  /\ notice' = NoNotice
  /\ UNCHANGED <<msgs, faults, agentOps, stopPosts, called, discarded, daemonVars>>

\* Variant: enqueueEvent does not look at the size of the queue.
enqueueEventAcceptsAlways(q) == TRUE

\* Variant: the test is "queue.size() > 5".
enqueueEventAcceptsAtCap(q) == size(q) <= QueueCap

\* feishu.ts:425: the value enqueueEvent returns
enqueueEventAccepts(q) == ~(size(q) >= QueueCap)

\* feishu.ts:417-434, called by the events watcher
EnqueueEvent(c, eventFilename, getStateThrows, maxJobs) ==
  /\ Len(jobs) < maxJobs
  /\ IF ~enqueueEventAccepts(queues[getQueue(c)])
     THEN /\ discarded < MaxDiscards
          /\ discarded' = discarded + 1
          /\ UNCHANGED <<queues, channelStates, runner, jobs, ctxs, started, lastFinished>>
     ELSE /\ Commit(enqueue(World, getQueue(c), NewJob(c, eventFilename),
                            getStateThrows))
          /\ UNCHANGED discarded
  /\ notice' = NoNotice
  /\ UNCHANGED <<msgs, faults, agentOps, stopPosts, called, daemonVars>>

\* feishu.ts:177-262: what one inbound message event does
handleMessageEvent(c, ev) ==
  \/ MessageDropped(c, ev)
  \/ StopCommand(c, ev, TRUE)
  \/ BusyReply(c, ev, TRUE)
  \/ \E getStateThrows \in BOOLEAN : MessageEnqueued(c, ev, getStateThrows, MaxJobs)

\* ----------------------------------------------------- pipeline steps
\* main.ts:651: respond logs the text once the message has an id
logsResponse(s, cx) == s.op = "respond" /\ s.flag /\ cx.messageId # 0

\* Variant: the id a reply returned is kept even when it is empty.
trackAlways(threadMessageIds, replyId) == Append(threadMessageIds, replyId)

\* Variant: the id of a reply is not kept.
trackNothing(threadMessageIds, replyId) == threadMessageIds

\* main.ts:675: if (replyId) threadMessageIds.push(replyId)
track(threadMessageIds, replyId) ==
  IF replyId # 0 THEN Append(threadMessageIds, replyId) ELSE threadMessageIds

\* The transport call of a running step has returned (newId: the id a post
\* or reply returned) and the step runs on to its next await or to its end.
\* logThrows: logBotResponse (feishu.ts:399-408, appendFileSync) throws.
stepAfterCall(cx, s, newId, logThrows) ==
  CASE s.call.kind = "post" ->
         LET cx1 == [cx EXCEPT !.messageId = newId]
         IN IF logsResponse(s, cx1) /\ logThrows THEN reject(cx1) ELSE settle(cx1)
    [] s.call.kind = "update" ->
         IF logsResponse(s, cx) /\ logThrows THEN reject(cx) ELSE settle(cx)
    [] s.call.kind = "reply" ->
         settle([cx EXCEPT !.threadMessageIds = track(@, newId)])
    [] s.call.kind = "delete" ->
         IF s.i >= 1 THEN deleteFrom(cx, s, s.i - 1)
         ELSE settle([cx EXCEPT !.messageId = 0])

\* What the platform holds after the call (feishu.ts:291-354).
serverAfterCall(ms, by, call, ok) ==
  CASE call.kind = "post" -> IF ok THEN Append(ms, Message(call.text, by, 0)) ELSE ms
    [] call.kind = "update" -> updated(ms, call.id, call.text, ok)
    [] call.kind = "reply" ->
         IF ok THEN Append(ms, Message(call.text, by, call.id)) ELSE ms
    [] call.kind = "delete" -> deleted(ms, call.id, ok)

\* The transport call of a running step returns; the chain and handleEvent
\* run on as far as they can.
StepReturn(j, s, ok, logThrows) ==
  /\ j \in JobIds
  /\ s \in ctxs[j].active
  /\ LET c == jobs[j].channel
         cx == [ctxs[j] EXCEPT !.active = @ \ {s}]
         newId == IF ok THEN Len(msgs[c]) + 1 ELSE 0
     IN /\ logThrows =>
             logsResponse(s, IF s.call.kind = "post"
                             THEN [cx EXCEPT !.messageId = newId] ELSE cx)
        /\ Outcome(ok)
        /\ msgs' = [msgs EXCEPT ![c] = serverAfterCall(@, j, s.call, ok)]
        /\ Commit(continue([World EXCEPT !.ctxs[j] =
                              collect(drain(stepAfterCall(cx, s, newId, logThrows)),
                                      jobs[j])], j))
  /\ notice' = NoNotice
  /\ UNCHANGED <<agentOps, stopPosts, called, discarded, daemonVars>>

\* ------------------------------------------------------- the agent run
\* The running agent calls a method of its context.
AgentCall(j, step, maxOps) ==
  /\ j \in JobIds /\ jobs[j].pc = "run"
  /\ agentOps < maxOps
  /\ ctxs' = [ctxs EXCEPT ![j] = drain(ctxCall(@, step))]
  /\ agentOps' = agentOps + 1
  /\ called' = Append(called, [job |-> j, step |-> step,
                               pending |-> ctxs[j].issued - ctxs[j].settled])
  /\ notice' = NoNotice
  /\ UNCHANGED <<queues, channelStates, runner, jobs, msgs, faults,
                 lastFinished, stopPosts, started, discarded, daemonVars>>

StopReasons == {"completed", "aborted", "error"}

\* main.ts:759-760: the run returns its result; setWorking(false) is chained
AgentReturn(j, stopReason) ==
  /\ j \in JobIds /\ jobs[j].pc = "run"
  /\ LET cx == drain(ctxCall(ctxs[j], Step("setWorking", <<>>, FALSE)))
     IN Commit(continue([World EXCEPT !.ctxs[j] = cx,
                                      !.runner[jobs[j].channel] = FALSE,
                                      !.jobs[j].signalled = runner[jobs[j].channel],
                                      !.jobs[j].pc = "finalWorking",
                                      !.jobs[j].result = stopReason,
                                      !.jobs[j].await = cx.issued], j))
  /\ notice' = NoNotice
  /\ UNCHANGED <<msgs, faults, agentOps, stopPosts, called, discarded, daemonVars>>

\* main.ts:759, 770-774: the run throws
AgentThrow(j) ==
  /\ j \in JobIds /\ jobs[j].pc = "run"
  /\ Commit(finish([World EXCEPT !.runner[jobs[j].channel] = FALSE], j, TRUE))
  /\ notice' = NoNotice
  /\ UNCHANGED <<msgs, faults, agentOps, stopPosts, called, discarded, daemonVars>>

\* main.ts:764-768, 772-774: the "Stopped" call returns and handleEvent ends
StoppedReturn(j, ok) ==
  /\ j \in JobIds /\ jobs[j].pc = "stopped"
  /\ LET c == jobs[j].channel
         w == IF jobs[j].call.kind = "update"
              THEN [World EXCEPT !.channelStates[c].stopMessageTs = 0]
              ELSE World
     IN /\ Outcome(ok)
        /\ msgs' = [msgs EXCEPT ![c] = serverAfterCall(@, 0, jobs[j].call, ok)]
        /\ Commit(finish(w, j, FALSE))
  /\ notice' = NoNotice
  /\ UNCHANGED <<agentOps, stopPosts, called, discarded, daemonVars>>

\* ------------------------------------------------------ daemon supervisor
\* The PID file holds characters, so that String and parseInt are computed.
Digits == <<"0", "1", "2", "3", "4", "5", "6", "7", "8", "9">>

isDigit(ch) == \E d \in 1..10 : Digits[d] = ch

digitValue(ch) == (CHOOSE d \in 1..10 : Digits[d] = ch) - 1

\* String(child.pid): the decimal text of a pid
RECURSIVE String(_)
String(n) ==
  IF n < 10 THEN <<Digits[n + 1]>> ELSE String(n \div 10) \o <<Digits[(n % 10) + 1]>>

RECURSIVE parseDigits(_, _)
parseDigits(s, acc) ==
  IF s # <<>> /\ isDigit(Head(s))
  THEN parseDigits(Tail(s), acc * 10 + digitValue(Head(s)))
  ELSE acc

\* parseInt(content, 10): leading blanks are skipped, the leading digits are
\* read and what follows them is ignored; no leading digit gives NaN.  (No
\* content here carries a sign.)
parseInt(s) ==
  LET t == trimStart(s)
  IN  IF t # <<>> /\ isDigit(Head(t)) THEN parseDigits(t, 0) ELSE NaN

\* Variant: the parsed number is returned without the NaN test.
readPidFileUnchecked(f) ==
  IF ~f.exists THEN null ELSE parseInt(trim(f.content))

\* main.ts:145-152
readPidFile(f) ==
  IF ~f.exists
  THEN null
  ELSE LET pid == parseInt(trim(f.content))
       IN  IF pid = NaN THEN null ELSE pid

\* process.kill(pid, 0) raises EPERM: the process exists and the caller may
\* not signal it.
probeDenied(procs, pid, permitted) == pid \in procs /\ ~permitted

\* Variant: a probe that is denied answers that the process is alive.
isProcessAliveUnlessGone(procs, pid, permitted) == pid \in procs

\* main.ts:136-143: whatever process.kill raises, the answer is false
isProcessAlive(procs, pid, permitted) == pid \in procs /\ ~probeDenied(procs, pid, permitted)

\* What the PID file holds before the first command: nothing, characters
\* that are no number, or the pid of a process that is gone followed by
\* other characters.
PidFiles ==
  { NoFile,
    [exists |-> TRUE, content |-> <<" ", "x">>],
    [exists |-> TRUE, content |-> <<"7", "x", " ">>] }

Commands == {"start", "stop", "status"}

NewInvocation(cmd, seq, user) ==
  [NoInvocation EXCEPT !.cmd = cmd, !.pc = "read", !.seq = seq, !.user = user]

\* The users who run mom in the directory.
Users == {"u1", "u2"}

\* A user may signal the processes that user started.
permitted(owners, inv) == inv.pid \in 1..Len(owners) => owners[inv.pid] = inv.user

\* Variant: every exit reports success.
exitZero(inv, code, said) == [inv EXCEPT !.pc = "exit", !.code = 0, !.said = said]

\* process.exit(code) after the console line `said`
exit(inv, code, said) == [inv EXCEPT !.pc = "exit", !.code = code, !.said = said]

\* An exception nothing catches ends the process with a non-zero code.
crash(inv) == [inv EXCEPT !.pc = "exit", !.code = 1, !.said = "uncaught", !.erred = TRUE]

\* A call of the supervisor fails only while the bound allows it.
Fault(throws) ==
  /\ throws => osFaults < MaxOsFaults
  /\ osFaults' = IF throws THEN osFaults + 1 ELSE osFaults

\* A user runs mom --daemon, --stop-daemon or --status in the directory.
Invoke(i, cmd, user) ==
  /\ cli[i].pc \in {"idle", "exit"}
  /\ invoked < MaxInvocations
  /\ invoked' = invoked + 1
  /\ cli' = [cli EXCEPT ![i] = NewInvocation(cmd, invoked + 1, user)]
  /\ UNCHANGED <<pidFile, processes, signals, spawned, owner, osFaults>>
  /\ UNCHANGED botVars

\* --daemon, main.ts:222: readPidFile and the test of null
StartRead(i, throws) ==
  /\ cli[i].cmd = "start" /\ cli[i].pc = "read"
  /\ throws => pidFile.exists
  /\ Fault(throws)
  /\ LET pid == readPidFile(pidFile)
     IN  cli' = [cli EXCEPT ![i] =
                  IF throws THEN crash(@)
                  ELSE IF pid = null THEN [@ EXCEPT !.pc = "spawn"]
                  ELSE [@ EXCEPT !.pid = pid, !.pc = "probe"]]
  /\ UNCHANGED <<pidFile, processes, signals, spawned, owner, invoked>>
  /\ UNCHANGED botVars

\* main.ts:223-226: the liveness probe and the refusal
StartProbe(i) ==
  /\ cli[i].cmd = "start" /\ cli[i].pc = "probe"
  /\ cli' = [cli EXCEPT ![i] =
               IF isProcessAlive(processes, @.pid, permitted(owner, @))
               THEN exit(@, 1, "already running")
               ELSE [@ EXCEPT !.pc = "spawn",
                              !.erred = probeDenied(processes, cli[i].pid,
                                                    permitted(owner, cli[i]))]]
  /\ UNCHANGED <<pidFile, processes, signals, spawned, owner, invoked, osFaults>>
  /\ UNCHANGED botVars

\* main.ts:228-250: mkdirSync, openSync and spawn.  "throws": mkdirSync or
\* openSync throws; "nopid": spawn returns a child without a pid, the write
\* is skipped and the process exits with 0 (main.ts:252-261).
StartSpawn(i, outcome) ==
  /\ cli[i].cmd = "start" /\ cli[i].pc = "spawn"
  /\ Fault(outcome # "pid")
  /\ IF outcome = "pid"
     THEN /\ spawned < MaxSpawns
          /\ spawned' = spawned + 1
          /\ owner' = Append(owner, cli[i].user)
          /\ processes' = processes \cup {spawned + 1}
          /\ cli' = [cli EXCEPT ![i] = [@ EXCEPT !.child = spawned + 1, !.pc = "write"]]
     ELSE /\ cli' = [cli EXCEPT ![i] =
                      IF outcome = "throws" THEN crash(@)
                      ELSE [exit(@, 0, "") EXCEPT !.erred = TRUE]]
          /\ UNCHANGED <<spawned, owner, processes>>
  /\ UNCHANGED <<pidFile, signals, invoked>>
  /\ UNCHANGED botVars

\* main.ts:252-261: writeFileSync of the child's pid, then exit(0)
StartWrite(i, throws) ==
  /\ cli[i].cmd = "start" /\ cli[i].pc = "write"
  /\ Fault(throws)
  /\ IF throws
     THEN cli' = [cli EXCEPT ![i] = crash(@)] /\ UNCHANGED pidFile
     ELSE /\ pidFile' = [exists |-> TRUE, content |-> String(cli[i].child)]
          /\ cli' = [cli EXCEPT ![i] = exit(@, 0, "started")]
  /\ UNCHANGED <<processes, signals, spawned, owner, invoked>>
  /\ UNCHANGED botVars

\* --stop-daemon, main.ts:168-172
StopRead(i, throws) ==
  /\ cli[i].cmd = "stop" /\ cli[i].pc = "read"
  /\ throws => pidFile.exists
  /\ Fault(throws)
  /\ LET pid == readPidFile(pidFile)
     IN  cli' = [cli EXCEPT ![i] =
                  IF throws THEN crash(@)
                  ELSE IF pid = null THEN exit(@, 1, "no PID file")
                  ELSE [@ EXCEPT !.pid = pid, !.pc = "probe"]]
  /\ UNCHANGED <<pidFile, processes, signals, spawned, owner, invoked>>
  /\ UNCHANGED botVars

\* main.ts:173-174: the first liveness probe
StopProbe(i) ==
  /\ cli[i].cmd = "stop" /\ cli[i].pc = "probe"
  /\ cli' = [cli EXCEPT ![i] =
               IF ~isProcessAlive(processes, @.pid, permitted(owner, @))
               THEN [@ EXCEPT !.pc = "unlinkStale",
                              !.erred = probeDenied(processes, cli[i].pid,
                                                    permitted(owner, cli[i]))]
               ELSE [@ EXCEPT !.pc = "kill"]]
  /\ UNCHANGED <<pidFile, processes, signals, spawned, owner, invoked, osFaults>>
  /\ UNCHANGED botVars

\* main.ts:175-176: unlinkSync outside any try; it throws on a file that is
\* gone as well
StopUnlinkStale(i, throws) ==
  /\ cli[i].cmd = "stop" /\ cli[i].pc = "unlinkStale"
  /\ throws => pidFile.exists
  /\ Fault(throws)
  /\ IF throws \/ ~pidFile.exists
     THEN cli' = [cli EXCEPT ![i] = crash(@)] /\ UNCHANGED pidFile
     ELSE /\ pidFile' = NoFile
          /\ cli' = [cli EXCEPT ![i] = exit(@, 0, "not running")]
  /\ UNCHANGED <<processes, signals, spawned, owner, invoked>>
  /\ UNCHANGED botVars

\* main.ts:178-182, 191-194: SIGTERM, and the start of the wait; a pid that
\* names no process makes process.kill throw
StopKill(i) ==
  /\ cli[i].cmd = "stop" /\ cli[i].pc = "kill"
  /\ IF cli[i].pid \in processes
     THEN /\ signals' = signals \cup {cli[i].pid}
          /\ cli' = [cli EXCEPT ![i] = [@ EXCEPT !.pc = "wait"]]
     ELSE /\ cli' = [cli EXCEPT ![i] = [exit(@, 1, "failed to stop") EXCEPT !.erred = TRUE]]
          /\ UNCHANGED signals
  /\ UNCHANGED <<pidFile, processes, spawned, owner, invoked, osFaults>>
  /\ UNCHANGED botVars

\* Variant: a process that is still alive is signalled and waited for again.
confirmOrRetry(inv, alive) ==
  IF ~alive THEN [inv EXCEPT !.pc = "unlinkStopped"] ELSE [inv EXCEPT !.pc = "kill"]

\* main.ts:183-190: after the wait of one second
confirm(inv, alive) ==
  IF ~alive THEN [inv EXCEPT !.pc = "unlinkStopped"]
  ELSE exit(inv, 0, "still running")

\* main.ts:182-190, 195: the wait is over; the second liveness probe
StopConfirm(i) ==
  /\ cli[i].cmd = "stop" /\ cli[i].pc = "wait"
  /\ cli' = [cli EXCEPT ![i] =
               confirm(@, isProcessAlive(processes, @.pid, permitted(owner, @)))]
  /\ UNCHANGED <<pidFile, processes, signals, spawned, owner, invoked, osFaults>>
  /\ UNCHANGED botVars

\* main.ts:185-187, 191-195: existsSync and unlinkSync inside the try
StopUnlinkStopped(i, throws) ==
  /\ cli[i].cmd = "stop" /\ cli[i].pc = "unlinkStopped"
  /\ throws => pidFile.exists
  /\ Fault(throws)
  /\ IF throws
     THEN /\ cli' = [cli EXCEPT ![i] = [exit(@, 1, "failed to stop") EXCEPT !.erred = TRUE]]
          /\ UNCHANGED pidFile
     ELSE /\ pidFile' = NoFile
          /\ cli' = [cli EXCEPT ![i] = exit(@, 0, "stopped")]
  /\ UNCHANGED <<processes, signals, spawned, owner, invoked>>
  /\ UNCHANGED botVars

\* --status, main.ts:201-205
StatusRead(i, throws) ==
  /\ cli[i].cmd = "status" /\ cli[i].pc = "read"
  /\ throws => pidFile.exists
  /\ Fault(throws)
  /\ LET pid == readPidFile(pidFile)
     IN  cli' = [cli EXCEPT ![i] =
                  IF throws THEN crash(@)
                  ELSE IF pid = null THEN exit(@, 1, "not running")
                  ELSE [@ EXCEPT !.pid = pid, !.pc = "probe"]]
  /\ UNCHANGED <<pidFile, processes, signals, spawned, owner, invoked>>
  /\ UNCHANGED botVars

\* main.ts:206-211: the liveness probe
StatusProbe(i) ==
  /\ cli[i].cmd = "status" /\ cli[i].pc = "probe"
  /\ cli' = [cli EXCEPT ![i] =
               IF isProcessAlive(processes, @.pid, permitted(owner, @))
               THEN exit(@, 0, "running")
               ELSE [@ EXCEPT !.pc = "unlinkStale",
                              !.erred = probeDenied(processes, cli[i].pid,
                                                    permitted(owner, cli[i]))]]
  /\ UNCHANGED <<pidFile, processes, signals, spawned, owner, invoked, osFaults>>
  /\ UNCHANGED botVars

\* main.ts:211-213: unlinkSync outside any try, then exit(1)
StatusUnlinkStale(i, throws) ==
  /\ cli[i].cmd = "status" /\ cli[i].pc = "unlinkStale"
  /\ throws => pidFile.exists
  /\ Fault(throws)
  /\ IF throws \/ ~pidFile.exists
     THEN cli' = [cli EXCEPT ![i] = crash(@)] /\ UNCHANGED pidFile
     ELSE /\ pidFile' = NoFile
          /\ cli' = [cli EXCEPT ![i] = exit(@, 1, "not running")]
  /\ UNCHANGED <<processes, signals, spawned, owner, invoked>>
  /\ UNCHANGED botVars

\* Variant: the handler leaves the PID file alone.
cleanupNothing(file, throws) == file

\* main.ts:154-163: the file is removed, whatever pid it holds; a failure
\* of unlinkSync is ignored
cleanupPidFile(file, throws) == IF throws THEN file ELSE NoFile

\* The daemon child handles SIGTERM (main.ts:591-596, 800-805):
\* cleanupPidFile (main.ts:154-163) removes the file, whatever pid it holds,
\* and ignores a failure; then the process exits.
DaemonSigterm(p, throws) ==
  /\ p \in signals
  /\ throws => pidFile.exists
  /\ Fault(throws)
  /\ pidFile' = cleanupPidFile(pidFile, throws)
  /\ processes' = processes \ {p}
  /\ signals' = signals \ {p}
  /\ UNCHANGED <<spawned, owner, cli, invoked>>
  /\ UNCHANGED botVars

\* The daemon child ends on its own, e.g. for want of credentials
\* (main.ts:397-403, 605-611): the PID file stays.
DaemonExit(p) ==
  /\ p \in processes
  /\ processes' = processes \ {p}
  /\ signals' = signals \ {p}
  /\ UNCHANGED <<pidFile, spawned, owner, cli, invoked, osFaults>>
  /\ UNCHANGED botVars

\* ----------------------------------------------------- specifications
\* Orchestration: jobs, runs and stop requests on every channel.  The
\* transport answers every call; the agent leaves its context alone.
Next ==
  \/ \E c \in Channels, ev \in InboundEvents : MessageDropped(c, ev)
  \/ \E c \in Channels, ev \in InboundEvents : StopCommand(c, ev, TRUE)
  \/ \E c \in Channels : StopPostReturn(c, TRUE)
  \/ \E c \in Channels, ev \in InboundEvents : BusyReply(c, ev, TRUE)
  \/ \E c \in Channels, ev \in InboundEvents, t \in BOOLEAN :
       MessageEnqueued(c, ev, t, MaxJobs)
  \/ \E c \in Channels, t \in BOOLEAN : EnqueueEvent(c, "", t, MaxJobs)
  \/ \E j \in JobIds : \E s \in ctxs[j].active : StepReturn(j, s, TRUE, FALSE)
  \/ \E j \in JobIds, r \in StopReasons : AgentReturn(j, r)
  \/ \E j \in JobIds : AgentThrow(j)
  \/ \E j \in JobIds : StoppedReturn(j, TRUE)

Spec == Init /\ [][Next]_vars

\* The queues alone: more jobs, and no inbound event is a stop command.
Chatter == {ev \in InboundEvents : ev.text = <<"s", "t", "o", "p", "!">>}

NextQueue ==
  \/ \E c \in Channels, ev \in Chatter : MessageDropped(c, ev)
  \/ \E c \in Channels, ev \in Chatter : BusyReply(c, ev, TRUE)
  \/ \E c \in Channels, ev \in Chatter, t \in BOOLEAN :
       MessageEnqueued(c, ev, t, MaxQueued)
  \/ \E c \in Channels, t \in BOOLEAN : EnqueueEvent(c, "", t, MaxQueued)
  \/ \E j \in JobIds : \E s \in ctxs[j].active : StepReturn(j, s, TRUE, FALSE)
  \/ \E j \in JobIds, r \in StopReasons : AgentReturn(j, r)
  \/ \E j \in JobIds : AgentThrow(j)

SpecQueue == Init /\ [][NextQueue]_vars

\* The queues fed by the events watcher.
Terminates ==
  \/ \E j \in JobIds : \E s \in ctxs[j].active : StepReturn(j, s, TRUE, FALSE)
  \/ \E j \in JobIds, r \in StopReasons : AgentReturn(j, r)
  \/ \E j \in JobIds : AgentThrow(j)

NextDrain ==
  \/ \E c \in Channels, t \in BOOLEAN : EnqueueEvent(c, "", t, MaxQueued)
  \/ Terminates

\* Every transport call and every agent run comes to an end: a job that
\* has been started terminates.
Underway(n) == IF n \in JobIds THEN InFlight(n) ELSE FALSE

Terminating == \A n \in 1..MaxQueued : Underway(n) ~> ~Underway(n)

SpecDrain == Init /\ [][NextDrain]_vars /\ Terminating

\* The handler alone, called by any adapter: handleEvent through the queue,
\* handleStop whether or not the channel is running.
NextHandler ==
  \/ \E c \in Channels, t \in BOOLEAN : EnqueueEvent(c, "", t, MaxJobs)
  \/ \E c \in Channels : HandleStop(c, TRUE)
  \/ \E c \in Channels : StopPostReturn(c, TRUE)
  \/ \E j \in JobIds : \E s \in ctxs[j].active : StepReturn(j, s, TRUE, FALSE)
  \/ \E j \in JobIds, r \in StopReasons : AgentReturn(j, r)
  \/ \E j \in JobIds : AgentThrow(j)
  \/ \E j \in JobIds : StoppedReturn(j, TRUE)

SpecHandler == Init /\ [][NextHandler]_vars

\* Consecutive runs of one channel whose agent responds, over a transport
\* that may fail and a response log that may throw.
NextRuns ==
  \/ EnqueueEvent("C1", "", FALSE, MaxJobs)
  \/ \E j \in JobIds : \E s \in ctxs[j].active, ok \in BOOLEAN, t \in BOOLEAN :
       StepReturn(j, s, ok, t)
  \/ \E j \in JobIds : AgentCall(j, Step("respond", <<"x">>, TRUE), MaxOps)
  \/ \E j \in JobIds, r \in StopReasons : AgentReturn(j, r)
  \/ \E j \in JobIds : AgentThrow(j)

SpecRuns == Init /\ [][NextRuns]_vars

\* The events watcher fills the queue of one channel.
NextCap ==
  \/ EnqueueEvent("C1", "", FALSE, MaxBacklog)
  \/ \E j \in JobIds : \E s \in ctxs[j].active : StepReturn(j, s, TRUE, FALSE)
  \/ \E j \in JobIds : AgentReturn(j, "completed")
  \/ \E j \in JobIds : AgentThrow(j)

SpecCap == Init /\ [][NextCap]_vars

\* One accumulator: the runs of one channel whose agent calls its context,
\* over a transport that may fail and a response log that may throw.
ContextCalls(eventFilename) ==
  { Step("respond", <<"x">>, TRUE), Step("respond", <<"y">>, TRUE),
    Step("replaceMessage", <<"z">>, TRUE), Step("respondInThread", <<"t">>, TRUE),
    Step("setTyping", typingText(eventFilename), TRUE),
    Step("setWorking", <<>>, TRUE), Step("setWorking", <<>>, FALSE),
    Step("deleteMessage", <<>>, TRUE) }

NextAcc ==
  \/ \E f \in {"", "f1"} : EnqueueEvent("C1", f, FALSE, MaxRuns)
  \/ \E j \in JobIds : \E s \in ctxs[j].active, ok \in BOOLEAN, t \in BOOLEAN :
       StepReturn(j, s, ok, t)
  \/ \E j \in JobIds : \E step \in ContextCalls(jobs[j].eventFilename) :
       AgentCall(j, step, MaxOps)
  \/ \E j \in JobIds, r \in StopReasons : AgentReturn(j, r)
  \/ \E j \in JobIds : AgentThrow(j)

SpecAcc == Init /\ [][NextAcc]_vars

\* One run whose agent answers, replies in the thread and deletes, over a
\* transport that may fail.
MaxThreadOps == 4

ThreadCalls ==
  { Step("respond", <<"x">>, TRUE), Step("respondInThread", <<"t">>, TRUE),
    Step("deleteMessage", <<>>, TRUE) }

NextThread ==
  \/ EnqueueEvent("C1", "", FALSE, MaxRuns)
  \/ \E j \in JobIds : \E s \in ctxs[j].active, ok \in BOOLEAN :
       StepReturn(j, s, ok, FALSE)
  \/ \E j \in JobIds : \E step \in ThreadCalls : AgentCall(j, step, MaxThreadOps)
  \/ \E j \in JobIds : AgentReturn(j, "completed")

SpecThread == Init /\ [][NextThread]_vars

\* One run whose agent only responds and replaces, over a transport that
\* may fail and a response log that may throw.
MaxBufferOps == 3

BufferCalls ==
  { Step("respond", <<"x">>, TRUE), Step("respond", <<"y">>, TRUE),
    Step("replaceMessage", <<"z">>, TRUE) }

NextBuffer ==
  \/ \E f \in {"", "f1"} : EnqueueEvent("C1", f, FALSE, MaxRuns)
  \/ \E j \in JobIds : \E s \in ctxs[j].active, ok \in BOOLEAN, t \in BOOLEAN :
       StepReturn(j, s, ok, t)
  \/ \E j \in JobIds : \E step \in BufferCalls : AgentCall(j, step, MaxBufferOps)
  \/ \E j \in JobIds : AgentReturn(j, "completed")

SpecBuffer == Init /\ [][NextBuffer]_vars

\* The platform delivers direct messages, some of them more than once.
MessageIds == {"om_1", "om_2"}

Deliveries ==
  [ valid : {TRUE}, senderType : {"user"}, chatType : {"p2p"},
    mentions : {[present |-> FALSE, ids |-> {}]},
    text : {<<"s", "t", "o", "p", "!">>}, messageId : MessageIds ]

NextDelivery ==
  \/ \E c \in Channels, ev \in Deliveries : BusyReply(c, ev, TRUE)
  \/ \E c \in Channels, ev \in Deliveries : MessageEnqueued(c, ev, FALSE, MaxQueued)
  \/ \E j \in JobIds : \E s \in ctxs[j].active : StepReturn(j, s, TRUE, FALSE)
  \/ \E j \in JobIds, r \in StopReasons : AgentReturn(j, r)

SpecDelivery == Init /\ [][NextDelivery]_vars

\* Consecutive runs of one channel whose agents answer, reply in the thread
\* and delete, over a transport that may fail; a run may throw while steps
\* of its context are still running.
NextOwn ==
  \/ EnqueueEvent("C1", "", FALSE, MaxJobs)
  \/ \E j \in JobIds : \E s \in ctxs[j].active, ok \in BOOLEAN :
       StepReturn(j, s, ok, FALSE)
  \/ \E j \in JobIds : \E step \in ThreadCalls : AgentCall(j, step, MaxOps)
  \/ \E j \in JobIds : AgentReturn(j, "completed")
  \/ \E j \in JobIds : AgentThrow(j)

SpecOwn == Init /\ [][NextOwn]_vars

\* Consecutive runs of one channel, each of which may be asked to stop; the
\* agent returns a result and leaves its context alone.
MaxPlaceholders == 2

NextPlaceholder ==
  \/ EnqueueEvent("C1", "", FALSE, MaxJobs)
  \/ handleStop("C1", TRUE, MaxPlaceholders)
  \/ StopPostReturn("C1", TRUE)
  \/ \E j \in JobIds : \E s \in ctxs[j].active : StepReturn(j, s, TRUE, FALSE)
  \/ \E j \in JobIds, r \in StopReasons : AgentReturn(j, r)
  \/ \E j \in JobIds : StoppedReturn(j, TRUE)

SpecPlaceholder == Init /\ [][NextPlaceholder]_vars

\* One channel fed by direct messages and by the events watcher, up to the
\* cap of its queue.
DirectChatter == {ev \in Chatter : ev.chatType = "p2p"}

NextInbound ==
  \/ \E ev \in DirectChatter : BusyReply("C1", ev, TRUE)
  \/ \E ev \in DirectChatter, t \in BOOLEAN : MessageEnqueued("C1", ev, t, MaxBacklog)
  \/ \E t \in BOOLEAN : EnqueueEvent("C1", "", t, MaxBacklog)
  \/ \E j \in JobIds : \E s \in ctxs[j].active : StepReturn(j, s, TRUE, FALSE)
  \/ \E j \in JobIds : AgentReturn(j, "completed")
  \/ \E j \in JobIds : AgentThrow(j)

SpecInbound == Init /\ [][NextInbound]_vars

\* Runs that are stopped while their agent answers, replies in the thread
\* and deletes, over a transport that may fail in any of its calls.
NextIds ==
  \/ EnqueueEvent("C1", "", FALSE, MaxJobs)
  \/ handleStop("C1", TRUE, MaxPlaceholders)
  \/ \E ok \in BOOLEAN : StopPostReturn("C1", ok)
  \/ \E j \in JobIds : \E s \in ctxs[j].active, ok \in BOOLEAN :
       StepReturn(j, s, ok, FALSE)
  \/ \E j \in JobIds : \E step \in ThreadCalls : AgentCall(j, step, MaxOps)
  \/ \E j \in JobIds, r \in StopReasons : AgentReturn(j, r)
  \/ \E j \in JobIds, ok \in BOOLEAN : StoppedReturn(j, ok)

SpecIds == Init /\ [][NextIds]_vars

\* The supervisor: command-line invocations of one working directory, two
\* at a time, and the daemon children they start.
InitDaemon == BotInit /\ NoDaemon /\ pidFile \in PidFiles

CommandStep ==
  \/ \E i \in Invocations, throws \in BOOLEAN : StartRead(i, throws)
  \/ \E i \in Invocations : StartProbe(i)
  \/ \E i \in Invocations, outcome \in {"pid", "nopid", "throws"} : StartSpawn(i, outcome)
  \/ \E i \in Invocations, throws \in BOOLEAN : StartWrite(i, throws)
  \/ \E i \in Invocations, throws \in BOOLEAN : StopRead(i, throws)
  \/ \E i \in Invocations : StopProbe(i)
  \/ \E i \in Invocations, throws \in BOOLEAN : StopUnlinkStale(i, throws)
  \/ \E i \in Invocations : StopKill(i)
  \/ \E i \in Invocations : StopConfirm(i)
  \/ \E i \in Invocations, throws \in BOOLEAN : StopUnlinkStopped(i, throws)
  \/ \E i \in Invocations, throws \in BOOLEAN : StatusRead(i, throws)
  \/ \E i \in Invocations : StatusProbe(i)
  \/ \E i \in Invocations, throws \in BOOLEAN : StatusUnlinkStale(i, throws)
  \/ \E p \in processes, throws \in BOOLEAN : DaemonSigterm(p, throws)
  \/ \E p \in processes : DaemonExit(p)

NextDaemon ==
  \/ \E i \in Invocations, cmd \in Commands, user \in Users :
       Invoke(i, cmd, user)
  \/ CommandStep

SpecDaemon == InitDaemon /\ [][NextDaemon]_vars

\* The supervisor used from one shell: a command is run when the one before
\* it has exited.
Exited == \A j \in Invocations : cli[j].pc \in {"idle", "exit"}

NextCommands ==
  \/ \E i \in Invocations, cmd \in Commands, user \in Users :
       Exited /\ Invoke(i, cmd, user)
  \/ CommandStep

SpecCommands == InitDaemon /\ [][NextCommands]_vars

\* ---------------------------------------------------------- properties
JobsOf(c) == {j \in JobIds : jobs[j].channel = c}
Executing(c) == {j \in JobsOf(c) : InFlight(j)}
Pending(c) == {j \in JobsOf(c) : jobs[j].pc = "queued"}
Ended(c) == {j \in JobsOf(c) : jobs[j].pc \in {"done", "rejected"}}

\* C1: on every channel at most one job is between the start and the end
\* of its handleEvent at any time.
C1_MutualExclusion == \A c \in Channels : Cardinality(Executing(c)) <= 1

\* A job runs while another job of its channel waits and a third has ended.
C1_Witness ==
  \E c \in Channels : Executing(c) # {} /\ Pending(c) # {} /\ Ended(c) # {}

\* C2: the jobs of one channel start in the order they were enqueued (job
\* ids count the enqueues).
C2_Fifo ==
  \A a, b \in 1..Len(started) :
    (a < b /\ jobs[started[a]].channel = jobs[started[b]].channel)
      => started[a] < started[b]

\* Three jobs of one channel were enqueued; two have started, one after the
\* other, and the third still waits.
C2_Witness ==
  \E c \in Channels :
    /\ Cardinality(JobsOf(c)) >= 3
    /\ \E a, b \in 1..Len(started) :
         a < b /\ {started[a], started[b]} \subseteq JobsOf(c) /\ InFlight(started[b])
    /\ Pending(c) # {}

\* C3: a job waits only behind a run of its own channel: whatever a run of
\* another channel does (stays in the agent, fails), a queued job has a job
\* of its own channel executing before it.
C3_ChannelsIndependent ==
  \A c \in Channels : Pending(c) # {} => Executing(c) # {}

\* A run still executes on one channel while a job enqueued later on
\* another channel has started and ended.
C3_Witness ==
  \E a, b \in Channels : \E i \in Executing(a), j \in Ended(b) :
    a # b /\ i < j /\ jobs[i].pc = "run" /\ jobs[j].pc = "done"

\* C6: when a handleEvent ends through its catch block, the channel is
\* marked running only if the next job of the channel has started, and no
\* job of the channel is left waiting with none executing.
C6_RunningReleased ==
  [][ \A c \in Channels, j \in JobIds :
        (lastFinished' # lastFinished /\ lastFinished' = [job |-> j, caught |-> TRUE]
           /\ jobs[j].channel = c) =>
          /\ channelStates'[c].running => Executing(c)' # {}
          /\ Pending(c)' # {} => Executing(c)' # {}
          /\ j \notin Executing(c)' ]_vars

\* A run ended through the catch block and the next job of its channel has
\* started.
C6_Witness ==
  /\ lastFinished.caught
  /\ \E j \in Executing(jobs[lastFinished.job].channel) : j > lastFinished.job

\* C7: when a work item rejects, its queue is not left halted: processing
\* is set only while a job of the queue executes, and no job is left
\* pending with none executing.
C7_RejectionCaught ==
  [][ \A c \in Channels, j \in 1..MaxQueued :
        (/\ j \in JobIds'
         /\ jobs'[j].pc = "rejected" /\ jobs'[j].channel = c
         /\ j \in JobIds => jobs[j].pc # "rejected") =>
          /\ queues'[getQueue(c)].processing => Executing(c)' # {}
          /\ Pending(c)' # {} => Executing(c)' # {} ]_vars

\* A work item was rejected and a later job of the same channel has started.
C7_Witness ==
  \E c \in Channels : \E i, j \in JobsOf(c) :
    i < j /\ jobs[i].pc = "rejected" /\ InFlight(j)

\* C8: a run that was signalled a stop and returns "aborted" ends with the
\* "Stopping..." placeholder of the stop replaced by "Stopped": the
\* placeholder post has returned, no message of the channel still reads
\* "Stopping...", and exactly one reads "Stopped".
Reading(c, text) == {i \in 1..Len(msgs[c]) : msgs[c][i].text = text}

C8_StoppedReplacesPlaceholder ==
  [][ \A c \in Channels, j \in JobIds :
        (/\ jobs[j].channel = c /\ InFlight(j)
         /\ jobs[j].signalled /\ jobs[j].result = "aborted"
         /\ jobs'[j].pc = "done") =>
          /\ stopPosts'[c] = 0
          /\ Reading(c, <<"Stopping...">>)' = {}
          /\ Cardinality(Reading(c, <<"Stopped">>)') = 1 ]_vars

\* C9: an event whose text is the stop keyword enqueues no job; one that
\* is not skipped as malformed or as the bot's own sets stopRequested and
\* signals the runner when its channel is running, and otherwise does
\* nothing but post the "nothing running" reply.
StopTexts == {<<"s", "t", "o", "p">>, <<" ", "S", "T", "o", "p", " ">>}

C9_StopNeverEnqueued ==
  [][ \A c \in Channels, ev \in InboundEvents :
        (ev.text \in StopTexts /\ handleMessageEvent(c, ev)) =>
          /\ UNCHANGED <<jobs, queues, started>>
          /\ (ev.valid /\ ev.senderType = "user") =>
               IF channelStates[c].exists /\ channelStates[c].running
               THEN channelStates'[c].stopRequested /\ runner'[c]
               ELSE /\ notice' = [channel |-> c, text |-> <<"_Nothing running_">>]
                    /\ UNCHANGED <<channelStates, runner, ctxs, msgs, stopPosts>> ]_vars

\* A stop command reached a running channel: the flag is set, the runner
\* is signalled, the job still executes and nothing was enqueued.
C9_Witness ==
  \E c \in Channels :
    /\ channelStates[c].stopRequested /\ runner[c] /\ stopPosts[c] = 1
    /\ Executing(c) # {} /\ Pending(c) = {} /\ Cardinality(JobsOf(c)) = 1

\* C10: stopRequested turns true only on a channel that is running, and
\* is false when a run of the channel has just started.
C10_StopRequestedTransitions ==
  [][ \A c \in Channels :
        /\ (~channelStates[c].stopRequested /\ channelStates'[c].stopRequested)
             => channelStates[c].running
        /\ (\E j \in 1..MaxJobs :
              /\ j \in JobIds' /\ jobs'[j].channel = c /\ jobs'[j].pc = "setTyping"
              /\ j \in JobIds => jobs[j].pc = "queued")
             => ~channelStates'[c].stopRequested ]_vars

\* A run was stopped and the next run of the channel has started with the
\* flag reset.
C10_Witness ==
  \E c \in Channels :
    /\ Stoppings(c) # {} /\ Ended(c) # {} /\ Executing(c) # {}
    /\ channelStates[c].running /\ ~channelStates[c].stopRequested

\* C4: respond("x") and then respond("y"), the second called before the
\* first has finished: once every step has settled, with no transport call
\* failed and no step thrown, the message of the run reads ... "x\ny",
\* followed at most by the working indicator.
EndsWith(s, t) == Len(s) >= Len(t) /\ SubSeq(s, Len(s) - Len(t) + 1, Len(s)) = t

Raced(j) ==
  /\ Len(called) >= 2
  /\ called[Len(called) - 1].job = j /\ called[Len(called)].job = j
  /\ called[Len(called) - 1].step = Step("respond", <<"x">>, TRUE)
  /\ called[Len(called)].step = Step("respond", <<"y">>, TRUE)
  /\ called[Len(called)].pending >= 1

Quiet(j) ==
  /\ faults = 0 /\ ~ctxs[j].rejected
  /\ idle(ctxs[j]) /\ ctxs[j].settled = ctxs[j].issued

PrimaryOf(j) ==
  {i \in 1..Len(msgs[jobs[j].channel]) :
     LET m == msgs[jobs[j].channel][i] IN m.by = j /\ m.parent = 0 /\ ~m.deleted}

Visible(j) ==
  LET last == CHOOSE i \in PrimaryOf(j) : \A k \in PrimaryOf(j) : k <= i
  IN msgs[jobs[j].channel][last].text

C4_RespondOrder ==
  \A j \in JobIds :
    (Raced(j) /\ Quiet(j)) =>
      /\ PrimaryOf(j) # {}
      /\ \/ EndsWith(Visible(j), <<"x", "\n", "y">>)
         \/ EndsWith(Visible(j), <<"x", "\n", "y">> \o workingIndicator)

\* Both calls were made back to back, everything has settled, the run has
\* ended and the message shows the texts in call order.
C4_Witness ==
  \E j \in JobIds :
    /\ Raced(j) /\ Quiet(j) /\ jobs[j].pc = "done"
    /\ EndsWith(Visible(j), <<"x", "\n", "y">>)

\* C5: the steps of a context run one at a time and in call order: at
\* most one step is in a transport call, every step called before it has
\* settled, and the steps behind it wait in call order.
C5_PipelineSerial ==
  \A j \in JobIds :
    LET cx == ctxs[j]
    IN /\ Cardinality(cx.active) <= 1
       /\ \A s \in cx.active : s.n = cx.settled + 1
       /\ \A i \in 1..Len(cx.pipe) :
            cx.pipe[i].n = cx.settled + Cardinality(cx.active) + i

\* A step is in its transport call while two steps called after it wait.
C5_Witness ==
  \E j \in JobIds :
    /\ Cardinality(ctxs[j].active) = 1 /\ Len(ctxs[j].pipe) >= 2
    /\ Len(called) >= 2

\* C11: isRunning answers true for a channel exactly while a handleEvent of
\* the channel is between its start and its end; a channel without any job
\* so far is reported not running.
C11_RunningIffExecuting ==
  \A c \in Channels :
    /\ isRunning(channelStates[c]) <=> Executing(c) # {}
    /\ JobsOf(c) = {} => ~isRunning(channelStates[c])

\* One channel runs its second job, the other never had a job.
C11_Witness ==
  \E c, d \in Channels :
    /\ isRunning(channelStates[c]) /\ Ended(c) # {} /\ Executing(c) # {}
    /\ JobsOf(d) = {} /\ ~isRunning(channelStates[d])

\* C12: handleStop for a channel that is not marked running leaves the run
\* state as it is: stopRequested and stopMessageTs keep their values, the
\* runner is not signalled and no "Stopping..." post is under way.
C12_StopWhenIdleNoOp ==
  [][ \A c \in Channels :
        (~channelStates[c].running /\ HandleStop(c, TRUE)) =>
          UNCHANGED <<channelStates, runner, stopPosts, jobs, queues, msgs>> ]_vars

\* handleStop has just answered "Nothing running" on a channel whose run
\* has ended, and nothing of a stop is recorded.
C12_Witness ==
  \E c \in Channels :
    /\ notice = [channel |-> c, text |-> <<"Nothing running">>]
    /\ channelStates[c].exists /\ Ended(c) # {} /\ Executing(c) = {}
    /\ ~channelStates[c].stopRequested /\ ~runner[c]
    /\ channelStates[c].stopMessageTs = 0 /\ stopPosts[c] = 0

\* C13: when a job's agent has called respond, every earlier job of the
\* channel is complete: its handleEvent has ended, none of its steps is
\* chained or in a transport call, and its message no longer ends in the
\* working indicator.
Finalized(i) ==
  /\ jobs[i].pc = "done"
  /\ idle(ctxs[i]) /\ ctxs[i].settled = ctxs[i].issued
  /\ PrimaryOf(i) # {} /\ ~EndsWith(Visible(i), workingIndicator)

C14_SixthJobDiscarded ==
  [][ \A c \in Channels :
        (/\ Cardinality(JobsOf(c)) = 5 /\ Ended(c) = {}
         /\ EnqueueEvent(c, "", FALSE, MaxBacklog)) =>
          (jobs' = jobs /\ discarded' = discarded + 1) ]_vars

\* C14 (amended): an event enqueued on a channel that has five jobs
\* pending behind the executing one is discarded, and the discard changes
\* nothing of the queue, the jobs, their contexts or the channel's state.
C14_DiscardedWhenFivePending ==
  [][ \A c \in Channels :
        (Cardinality(Pending(c)) = QueueCap /\ EnqueueEvent(c, "", FALSE, MaxBacklog)) =>
          /\ discarded' = discarded + 1
          /\ UNCHANGED <<queues, jobs, ctxs, channelStates, started, msgs>> ]_vars

\* An event was discarded and the six jobs accepted before it have all
\* run to their end.
C14_Witness ==
  \E c \in Channels : discarded = 1 /\ Cardinality(Ended(c)) = 6 /\ Pending(c) = {}

\* C15: whatever the interleaving of start, stop and status invocations,
\* at most one daemon child started for the directory is alive.
C15_AtMostOneDaemon == Cardinality(processes) <= 1

\* C16: a start whose PID file names a live process refuses: it exits
\* non-zero, spawns no child and leaves the PID file as it is; a start that
\* does not refuse, and in which no call fails, ends with a child spawned
\* and that child's pid in the PID file.
C16_StartRefusesOrSpawns ==
  [][ \A i \in Invocations :
        /\ (StartProbe(i) /\ cli[i].pid \in processes) =>
              /\ cli'[i].pc = "exit" /\ cli'[i].code # 0
              /\ UNCHANGED <<pidFile, processes, spawned, owner>>
        /\ (/\ cli[i].cmd = "start" /\ cli[i].pc # "exit" /\ cli'[i].pc = "exit"
            /\ cli'[i].said # "already running" /\ ~cli'[i].erred) =>
              /\ cli'[i].child # null
              /\ readPidFile(pidFile') = cli'[i].child ]_vars

\* The step of stop invocation i that deletes the PID file.
StopDeletes(i) ==
  \E throws \in BOOLEAN :
    (StopUnlinkStale(i, throws) \/ StopUnlinkStopped(i, throws)) /\ pidFile' # pidFile

\* C17: stop deletes the PID file only when the process it names is not
\* alive, and leaves the file in place when the process is alive after the
\* wait.
C17_StopDeletesOnlyWhenDead ==
  [][ \A i \in Invocations :
        /\ StopDeletes(i) => cli[i].pid \notin processes
        /\ (StopConfirm(i) /\ cli[i].pid \in processes) =>
              (pidFile' = pidFile /\ cli'[i].pc = "exit") ]_vars

StaleStatus(j) ==
  /\ cli[j].cmd = "status" /\ cli[j].pc = "exit"
  /\ cli[j].pid # null /\ cli[j].said = "not running"

\* C18: a status whose PID file names a dead pid reports "not running"
\* with a non-zero exit and removes the file, and the start run next
\* ends with a child spawned and its pid in the PID file, unless one of
\* their filesystem or spawn calls fails.
C18_StaleStatusThenStart ==
  [][ \A i \in Invocations :
        /\ (/\ cli[i].cmd = "status" /\ cli[i].pc = "unlinkStale"
            /\ cli[i].pid \notin processes
            /\ cli'[i].pc = "exit" /\ ~cli'[i].erred) =>
              /\ cli'[i].said = "not running" /\ cli'[i].code # 0
              /\ ~pidFile'.exists
        /\ \A j \in Invocations :
              (/\ StaleStatus(j)
               /\ cli[i].cmd = "start" /\ cli[i].seq = cli[j].seq + 1
               /\ cli[i].pc # "exit" /\ cli'[i].pc = "exit" /\ ~cli'[i].erred) =>
                 /\ cli'[i].said = "started" /\ cli'[i].code = 0
                 /\ cli'[i].child \in 1..spawned
                 /\ readPidFile(pidFile') = cli'[i].child ]_vars

\* A status removed a stale PID file and the start run next has written
\* its child's pid.
C18_Witness ==
  \E i, j \in Invocations :
    /\ StaleStatus(j) /\ cli[j].code = 1
    /\ cli[i].cmd = "start" /\ cli[i].seq = cli[j].seq + 1
    /\ cli[i].pc = "exit" /\ cli[i].said = "started"
    /\ cli[i].child \in processes
    /\ pidFile = [exists |-> TRUE, content |-> String(cli[i].child)]

\* C19: an invocation in which a filesystem call, a spawn or a liveness
\* probe raised an error ends with a non-zero exit, and not with the
\* answer "not running".
C19_ErrorsAreFatal ==
  \A i \in Invocations :
    (cli[i].pc = "exit" /\ cli[i].erred) =>
      (cli[i].code # 0 /\ cli[i].said # "not running")

\* readPidFile finds characters that parseInt makes no number of.
Unparseable(f) == f.exists /\ parseInt(trim(f.content)) = NaN

\* What the first step of an invocation makes of an absent PID file.
OnAbsent(inv) ==
  CASE inv.cmd = "start" -> [inv EXCEPT !.pc = "spawn"]
    [] inv.cmd = "stop" -> exit(inv, 1, "no PID file")
    [] inv.cmd = "status" -> exit(inv, 1, "not running")

\* C20: start, stop and status read an unparseable PID file as they read
\* an absent one: the invocation does not crash, goes on as with no pid
\* recorded and touches neither the file nor a process.
C20_UnparseableAsAbsent ==
  [][ \A i \in Invocations :
        (/\ Unparseable(pidFile) /\ cli[i].pc = "read" /\ cli'[i] # cli[i]
         /\ ~cli'[i].erred) =>
           /\ cli'[i] = OnAbsent(cli[i])
           /\ UNCHANGED <<pidFile, processes, signals, spawned, owner>> ]_vars

\* Each of the three commands has read an unparseable PID file and gone on:
\* start to its spawn, stop and status to their exit.
C20_Witness ==
  /\ Unparseable(pidFile)
  /\ \E i, j \in Invocations :
       /\ cli[i].cmd = "start" /\ cli[i].pc = "spawn"
       /\ cli[j].cmd \in {"stop", "status"} /\ cli[j].pc = "exit" /\ cli[j].code = 1

\* C21: whatever failed inside the steps before it (a transport call or the
\* logging of a response), a context call the run makes is chained on a
\* promise that is not rejected, so its step is executed and not skipped.
C21_LaterStepsExecute ==
  [][ \A j \in JobIds :
        \A step \in ContextCalls(jobs[j].eventFilename) :
          AgentCall(j, step, MaxOps) => ~ctxs[j].rejected ]_vars

\* The primary messages the run of job j has created, deleted or not.
Created(j) ==
  {i \in 1..Len(msgs[jobs[j].channel]) :
     LET m == msgs[jobs[j].channel][i] IN m.by = j /\ m.parent = 0}

\* The deleteMessage calls the run of job j has made.
Deletes(j) ==
  Cardinality({k \in 1..Len(called) :
                 called[k].job = j /\ called[k].step.op = "deleteMessage"})

\* C22: a run creates one primary message, and one more only after a
\* deleteMessage; a post is in flight only while the context has no
\* message id, and an update in flight is of the message id the context
\* holds, which is a primary message the run created.
C22_OnePrimaryMessage ==
  \A j \in JobIds :
    /\ Cardinality(Created(j)) <= 1 + Deletes(j)
    /\ \A s \in ctxs[j].active :
         /\ s.call.kind = "post" => ctxs[j].messageId = 0
         /\ s.call.kind = "update" =>
              (s.call.id = ctxs[j].messageId /\ s.call.id \in Created(j))

\* The run has called setTyping and respond back to back on a context
\* without a message: the post of setTyping is in flight and the respond
\* step waits behind it.
C22_Witness ==
  \E j \in JobIds :
    /\ jobs[j].pc = "run" /\ Created(j) = {}
    /\ \E s \in ctxs[j].active : s.op = "setTyping" /\ s.call.kind = "post"
    /\ ctxs[j].pipe # <<>> /\ Head(ctxs[j].pipe).op = "respond"

\* How many times the work item of job j has been invoked.
Starts(j) == Cardinality({k \in 1..Len(started) : started[k] = j})

\* How many times job j stands in the queue of its channel.
Waits(j) ==
  LET q == queues[getQueue(jobs[j].channel)].queue
  IN Cardinality({k \in 1..Len(q) : q[k] = j})

\* C23: a job that waits stands once in its channel's queue and has not
\* been started; every other job has been started once, whether or not it
\* failed; and, the jobs before it terminating, every accepted job is
\* started.
C23_StartedExactlyOnce ==
  /\ [](\A j \in JobIds :
          IF jobs[j].pc = "queued"
          THEN Starts(j) = 0 /\ Waits(j) = 1
          ELSE Starts(j) = 1 /\ Waits(j) = 0)
  /\ \A n \in 1..MaxQueued : (Len(jobs) >= n) ~> (Starts(n) = 1)

\* Three jobs of one channel have each been started, the one before the
\* last having failed.
C23_Witness ==
  \E c \in Channels :
    /\ Cardinality(JobsOf(c)) = 3 /\ Len(started) = 3
    /\ \A j \in JobsOf(c) : Starts(j) = 1
    /\ lastFinished.caught /\ Executing(c) # {}

\* A group message whose mentions do not name the bot.
Unaddressed(ev) ==
  ev.chatType = "group" /\ ~(ev.mentions.present /\ "ou_bot" \in ev.mentions.ids)

\* C24: a group message that does not address the bot enqueues no job,
\* signals no abort and changes no channel state.
C24_UnaddressedDiscarded ==
  [][ \A c \in Channels, ev \in InboundEvents :
        (Unaddressed(ev) /\ handleMessageEvent(c, ev)) =>
          UNCHANGED <<queues, jobs, started, runner, channelStates>> ]_vars

\* One user message (not a stop command) is handled on channel c.
UserMessage(c, ev) ==
  \/ MessageDropped(c, ev)
  \/ BusyReply(c, ev, TRUE)
  \/ \E t \in BOOLEAN : MessageEnqueued(c, ev, t, MaxQueued)

Busy(c) == [channel |-> c, text |-> <<"Already working. Say stop to cancel.">>]

\* C25: a user message handled while its channel is running is not
\* enqueued and is answered "Already working"; a message is enqueued, and
\* not so answered, only when the channel is idle.
C25_BusyNotEnqueued ==
  [][ \A c \in Channels, ev \in Chatter :
        UserMessage(c, ev) =>
          LET running == channelStates[c].exists /\ channelStates[c].running
          IN /\ running => /\ UNCHANGED <<jobs, queues, started, channelStates, ctxs>>
                            /\ (accepted(ev) /\ addressed(ev)) => notice' = Busy(c)
             /\ Len(jobs') > Len(jobs) => ~running
             /\ notice' = Busy(c) => running
             /\ (accepted(ev) /\ addressed(ev) /\ ~running) =>
                  /\ Len(jobs') = Len(jobs) + 1
                  /\ jobs'[Len(jobs')].channel = c ]_vars

\* A message was answered "Already working" while the channel's only job
\* executes, after an earlier job of the channel had ended.
C25_Witness ==
  \E c \in Channels :
    /\ notice = Busy(c)
    /\ Executing(c) # {} /\ Pending(c) = {} /\ Ended(c) # {}

\* Messages of channel c that handleStop or handleEvent sent themselves.
Terminal(ms) == {i \in 1..Len(ms) : ms[i].by = 0 /\ ms[i].text = <<"Stopped">>}

\* C26: handleEvent goes on to its "Stopped" notification only with a result
\* whose stopReason is "aborted" and with stopRequested set, and the flag is
\* only ever set while the channel runs and is clear when a run starts; a
\* "Stopped" message appears only by that notification, and a run that ends
\* any other way ends without a message of handleEvent's own.
C26_StoppedOnlyOnRequestedAbort ==
  [][ \A j \in JobIds :
        LET c == jobs[j].channel
        IN /\ (jobs[j].pc # "stopped" /\ jobs'[j].pc = "stopped") =>
                /\ jobs'[j].result = "aborted"
                /\ channelStates'[c].stopRequested
           /\ (jobs[j].pc = "queued" /\ jobs'[j].pc \in AwaitingPcs) =>
                ~channelStates'[c].stopRequested
           /\ (~channelStates[c].stopRequested /\ channelStates'[c].stopRequested) =>
                Executing(c) # {}
           /\ Terminal(msgs'[c]) # Terminal(msgs[c]) =>
                \E i \in JobsOf(c) : jobs[i].pc = "stopped" /\ jobs'[i].pc = "done"
           /\ (jobs[j].pc \notin {"stopped", "done", "rejected"} /\ jobs'[j].pc = "done") =>
                /\ notice' = NoNotice
                /\ \A i \in 1..Len(msgs'[c]) :
                     msgs'[c][i].by = 0 => (i <= Len(msgs[c]) /\ msgs'[c][i] = msgs[c][i]) ]_vars

\* A run that was asked to stop and returned "aborted" has ended, and its
\* "Stopping..." message now reads "Stopped".
C26_Witness ==
  \E c \in Channels :
    /\ Terminal(msgs[c]) # {} /\ Executing(c) = {} /\ Ended(c) # {}
    /\ channelStates[c].stopRequested /\ channelStates[c].stopMessageTs = 0

\* The running deleteMessage steps of a context.
Deleting(cx) == {s \in cx.active : s.op = "deleteMessage"}

\* C27: deleteMessage first issues the delete of the last tracked thread
\* reply, after each returned delete that of the reply tracked before it,
\* and after the first reply's that of the primary message, with the tracked
\* list emptied; when the primary's delete has returned the list is empty
\* and the primary message id is cleared.  A delete that did not fail
\* leaves its message deleted.
C27_RepliesThenPrimary ==
  [][ \A j \in JobIds :
        LET cx == ctxs[j]
            nx == ctxs'[j]
            c == jobs[j].channel
        IN /\ \A s \in Deleting(cx) : s \notin nx.active =>
                /\ faults' = faults => msgs'[c][s.call.id].deleted
                /\ IF s.i >= 2
                   THEN /\ nx.threadMessageIds = cx.threadMessageIds
                        /\ nx.messageId = cx.messageId
                        /\ \E s2 \in Deleting(nx) :
                             /\ s2.n = s.n /\ s2.i = s.i - 1
                             /\ s2.call = Call("delete", cx.threadMessageIds[s.i - 1], <<>>)
                   ELSE IF s.i = 1
                   THEN /\ nx.threadMessageIds = <<>>
                        /\ nx.messageId = cx.messageId
                        /\ \E s2 \in Deleting(nx) :
                             /\ s2.n = s.n /\ s2.i = 0
                             /\ s2.call = Call("delete", cx.messageId, <<>>)
                   ELSE /\ nx.threadMessageIds = <<>>
                        /\ nx.messageId = 0
                        /\ Deleting(nx) = {}
           /\ Deleting(cx) = {} =>
                \A s2 \in Deleting(nx) :
                  /\ s2.i = Len(nx.threadMessageIds)
                  /\ s2.call = Call("delete",
                                    IF s2.i >= 1 THEN nx.threadMessageIds[s2.i]
                                    ELSE nx.messageId, <<>>)
                  /\ nx.messageId # 0 ]_vars

\* deleteMessage has deleted two thread replies and the primary message of
\* a run that is still going on.
C27_Witness ==
  \E j \in JobIds :
    /\ jobs[j].pc = "run" /\ idle(ctxs[j])
    /\ ctxs[j].messageId = 0 /\ ctxs[j].threadMessageIds = <<>>
    /\ LET ms == msgs[jobs[j].channel]
       IN /\ Cardinality({i \in 1..Len(ms) : ms[i].deleted /\ ms[i].parent # 0}) = 2
          /\ Cardinality({i \in 1..Len(ms) : ms[i].deleted /\ ms[i].parent = 0}) = 1

\* The thread replies of job j the platform holds.
Replies(j) ==
  LET ms == msgs[jobs[j].channel]
  IN {i \in 1..Len(ms) : ms[i].by = j /\ ms[i].parent # 0 /\ ~ms[i].deleted}

Tracked(cx) == {cx.threadMessageIds[k] : k \in 1..Len(cx.threadMessageIds)}

C29_RespondInThreadNoOp ==
  \A j \in JobIds :
    /\ \A s \in ctxs[j].active : s.op # "respondInThread" /\ s.call.kind # "reply"
    /\ ctxs[j].threadMessageIds = <<>>
    /\ \A i \in 1..Len(msgs[jobs[j].channel]) : msgs[jobs[j].channel][i].parent = 0

\* The calls that show the accumulated buffer: those of respond,
\* replaceMessage and setWorking, and every update.
Edits(cx) ==
  {s \in cx.active : \/ s.op \in {"respond", "replaceMessage", "setWorking"}
                     \/ s.call.kind = "update"}

CallsOf(j) == SelectSeq(called, LAMBDA e : e.job = j)

\* The buffer the first k calls of the agent of run j leave behind, starting
\* from buffer b: a replaceMessage overwrites, a respond appends after a
\* newline.
RECURSIVE BufferAfter(_, _, _)
BufferAfter(j, b, k) ==
  IF k = 0 THEN b
  ELSE LET before == BufferAfter(j, b, k - 1)
           step == CallsOf(j)[k].step
       IN IF step.op = "replaceMessage" THEN step.text
          ELSE IF before = <<>> THEN step.text
          ELSE before \o <<"\n">> \o step.text

\* The k-th call of the agent is step k + 2 of the context, behind the
\* setTyping and setWorking steps of handleEvent (main.ts:757-758).
CallOf(s) == s.n - 2

Carries(call, buffer) ==
  /\ call.kind \in {"post", "update"}
  /\ call.text \in {buffer, buffer \o workingIndicator}

\* C31 as stated: the buffer a respond or replaceMessage step shows is built
\* from an empty buffer.
C31_BufferFromEmpty ==
  \A j \in JobIds : \A s \in ctxs[j].active :
    s.op \in {"respond", "replaceMessage"} =>
      /\ ctxs[j].accumulatedText = BufferAfter(j, <<>>, CallOf(s))
      /\ Carries(s.call, ctxs[j].accumulatedText)

\* C31 amended: every respond or replaceMessage step that runs issues a
\* post or update carrying the full buffer, and the buffer is the text of
\* the last replaceMessage, or the placeholder setTyping put there if there
\* was none, followed by the texts of the later responds joined by newlines;
\* so is the buffer of a context at rest whose steps all ran.
C31_BufferFromPlaceholder ==
  \A j \in JobIds :
    LET placeholder == typingText(jobs[j].eventFilename)
    IN /\ \A s \in ctxs[j].active :
            s.op \in {"respond", "replaceMessage"} =>
              /\ ctxs[j].accumulatedText = BufferAfter(j, placeholder, CallOf(s))
              /\ Carries(s.call, ctxs[j].accumulatedText)
       /\ (jobs[j].pc = "run" /\ idle(ctxs[j]) /\ ~ctxs[j].rejected) =>
            ctxs[j].accumulatedText = BufferAfter(j, placeholder, Len(CallsOf(j)))

\* replaceMessage("z"), respond("x") and respond("y") have run: the last
\* edit is in flight and carries "z\nx\ny".
C31_Witness ==
  \E j \in JobIds : \E s \in ctxs[j].active :
    /\ s.op = "respond" /\ CallOf(s) = 3
    /\ CallsOf(j)[1].step.op = "replaceMessage" /\ CallsOf(j)[2].step.text = <<"x">>
    /\ ctxs[j].accumulatedText = <<"z", "\n", "x", "\n", "y">>
    /\ Carries(s.call, ctxs[j].accumulatedText)

IsPrefix(s, t) == Len(s) <= Len(t) /\ SubSeq(t, 1, Len(s)) = s

\* C32: handleStop, from its call to the return of its "Stopping..." post,
\* changes of the channel's state only stopRequested and stopMessageTs,
\* signals the runner and adds its own message; running, the queues and
\* their pending jobs, the jobs, and the contexts with their chained and
\* running steps stay as they are, and so does every other channel.
C32_StopIsCooperative ==
  [][ \A c \in Channels :
        (HandleStop(c, TRUE) \/ StopPostReturn(c, TRUE)) =>
          /\ UNCHANGED <<queues, jobs, ctxs, started, lastFinished, called>>
          /\ channelStates'[c].running = channelStates[c].running
          /\ channelStates'[c].exists = channelStates[c].exists
          /\ IsPrefix(msgs[c], msgs'[c])
          /\ \A i \in 1..Len(msgs'[c]) : i > Len(msgs[c]) => msgs'[c][i].by = 0
          /\ \A d \in Channels \ {c} :
               /\ channelStates'[d] = channelStates[d]
               /\ runner'[d] = runner[d] /\ msgs'[d] = msgs[d]
          /\ (HandleStop(c, TRUE) /\ channelStates[c].running) =>
               /\ channelStates'[c].stopRequested /\ runner'[c]
               /\ channelStates'[c].stopMessageTs = channelStates[c].stopMessageTs ]_vars

\* A stop was handled and its placeholder posted while the run's first
\* step is in its transport call and another job waits in the queue.
C32_Witness ==
  \E c \in Channels :
    /\ channelStates[c].running /\ channelStates[c].stopRequested /\ runner[c]
    /\ channelStates[c].stopMessageTs # 0
    /\ Pending(c) # {}
    /\ \E j \in Executing(c) : ctxs[j].active # {}

\* How far a --stop-daemon invocation has come.
Rank(pc) ==
  CASE pc = "read" -> 1
    [] pc = "probe" -> 2
    [] pc \in {"unlinkStale", "kill"} -> 3
    [] pc = "wait" -> 4
    [] pc = "unlinkStopped" -> 5
    [] OTHER -> 6

StopReports == {"stopped", "still running", "failed to stop"}

\* C33: every step of a --stop-daemon invocation takes it further towards
\* its exit, so it waits at most once; the step that ends the wait can
\* always be taken and leads to the report or to the deletion of the PID
\* file and then the report; no step of the invocation ends a process, and
\* the only signal it sends is the one SIGTERM to the pid it read.
C33_StopWaitsOnce ==
  /\ [][ \A i \in Invocations :
          (cli[i].cmd = "stop" /\ cli'[i] # cli[i] /\ cli[i].pc # "exit") =>
            /\ Rank(cli'[i].pc) > Rank(cli[i].pc)
            /\ processes' = processes
            /\ signals' \in {signals, signals \cup {cli[i].pid}}
            /\ signals' # signals => (cli[i].pc = "kill" /\ cli'[i].pc = "wait")
            /\ cli[i].pc \in {"wait", "unlinkStopped"} =>
                 \/ cli[i].pc = "wait" /\ cli'[i].pc = "unlinkStopped"
                 \/ cli'[i].pc = "exit" /\ cli'[i].said \in StopReports ]_vars
  /\ [](\A i \in Invocations :
         /\ (cli[i].cmd = "stop" /\ cli[i].pc = "wait") => ENABLED StopConfirm(i)
         /\ (cli[i].cmd = "stop" /\ cli[i].pc = "unlinkStopped") =>
              ENABLED StopUnlinkStopped(i, FALSE))

\* A --stop-daemon has waited, found the daemon still alive and reported
\* so; the daemon, signalled, is still there.
C33_Witness ==
  \E i \in Invocations :
    /\ cli[i].cmd = "stop" /\ cli[i].pc = "exit" /\ cli[i].said = "still running"
    /\ cli[i].pid \in processes /\ cli[i].pid \in signals

\* C34: however often a message is delivered, at most one job is enqueued
\* for its message id.
C34_DuplicateEnqueuedOnce ==
  \A m \in MessageIds : Cardinality({j \in JobIds : jobs[j].messageId = m}) <= 1

\* C35: the step in which a daemon handles the termination signal ends the
\* process and, unless the deletion itself fails, leaves no PID file.
C35_SignalRemovesPidFile ==
  [][ \A p \in processes :
        (\E throws \in BOOLEAN : DaemonSigterm(p, throws)) =>
          /\ p \notin processes' /\ p \notin signals'
          /\ osFaults' = osFaults => pidFile' = NoFile ]_vars

\* A --stop-daemon signalled the daemon it had found in the PID file; the
\* daemon has removed the file and exited while the stop still waits.
C35_Witness ==
  \E i \in Invocations :
    /\ cli[i].cmd = "stop" /\ cli[i].pc = "wait"
    /\ cli[i].pid \in 1..spawned /\ cli[i].pid \notin processes
    /\ cli[i].pid \notin signals /\ pidFile = NoFile

\* The messages of job j's channel that job j's context created.
Own(j) ==
  {i \in 1..Len(msgs[jobs[j].channel]) : msgs[jobs[j].channel][i].by = j}

\* C36: a context is new when its handleEvent starts: it holds no message
\* id and no tracked reply, and its first step is the placeholder post; and
\* every update, reply and delete of a context, the message id it holds and
\* the replies it tracks name messages that this context created.
C36_OwnAccumulator ==
  /\ [](\A j \in JobIds :
         /\ jobs[j].pc = "queued" => ctxs[j] = NewContext
         /\ ctxs[j].messageId # 0 => ctxs[j].messageId \in Own(j)
         /\ Tracked(ctxs[j]) \subseteq Own(j)
         /\ \A s \in ctxs[j].active :
              s.call.kind \in {"update", "reply", "delete"} => s.call.id \in Own(j))
  /\ [][ \A j \in JobIds :
          (jobs[j].pc = "queued" /\ jobs'[j].pc \in InFlightPcs) =>
            /\ ctxs'[j].messageId = 0 /\ ctxs'[j].threadMessageIds = <<>>
            /\ ctxs'[j].accumulatedText = typingText(jobs[j].eventFilename)
            /\ \A s \in ctxs'[j].active : s.op = "setTyping" /\ s.call.kind = "post" ]_vars

\* The second run of a channel edits its own message while the message of
\* the first run is still there.
C36_Witness ==
  \E i, j \in JobIds :
    /\ i < j /\ jobs[i].channel = jobs[j].channel
    /\ Own(i) # {} /\ jobs[j].pc = "run"
    /\ \E s \in ctxs[j].active : s.call.kind = "update" /\ s.call.id \in Own(j)

\* C37: the placeholder a run's "Stopped" notification edits belongs to a
\* stop request of that run: it was not posted before a message of an
\* earlier run of the channel, whose steps had all ended when this run
\* started.
C37_PlaceholderOfThisRun ==
  \A j \in JobIds :
    (jobs[j].pc = "stopped" /\ jobs[j].call.kind = "update") =>
      \A i \in 1..(j - 1) :
        jobs[i].channel = jobs[j].channel =>
          \A k \in Own(i) : k < jobs[j].call.id

\* C38: the cleanup of a signalled daemon and the deletion by stop after
\* its wait remove the PID file only if it names the process that exited,
\* and never while the pid in it names a daemon that is alive.
C38_LivePidFileKept ==
  [][ /\ \A p \in processes :
           ((\E throws \in BOOLEAN : DaemonSigterm(p, throws))
              /\ pidFile.exists /\ ~pidFile'.exists) =>
             (readPidFile(pidFile) = p /\ readPidFile(pidFile) \notin processes')
      /\ \A i \in Invocations :
           ((\E throws \in BOOLEAN : StopUnlinkStopped(i, throws))
              /\ pidFile.exists /\ ~pidFile'.exists) =>
             (readPidFile(pidFile) = cli[i].pid /\ readPidFile(pidFile) \notin processes')
    ]_vars

\* C39: whenever an inbound event can be handled, a channel is marked
\* running exactly if its queue is processing, an idle channel has an empty
\* queue, and no queue holds more than five pending jobs; a job enqueued by
\* the message path is taken from the queue in the same step.
C39_RunningIsProcessing ==
  /\ [](\A c \in Channels :
         LET q == queues[getQueue(c)]
             running == channelStates[c].exists /\ channelStates[c].running
         IN /\ running <=> q.processing
            /\ ~running => q.queue = <<>>
            /\ Len(q.queue) <= QueueCap)
  /\ [][ \A c \in Channels, ev \in DirectChatter :
          (\E t \in BOOLEAN : MessageEnqueued(c, ev, t, MaxBacklog)) =>
            /\ queues[getQueue(c)].queue = <<>> /\ queues'[getQueue(c)].queue = <<>>
            /\ started' = Append(started, Len(jobs'))
            /\ jobs'[Len(jobs')].pc # "queued" ]_vars

\* The queue holds five pending jobs behind a running one, an event was
\* discarded and a direct message handled in that state was answered.
C39_Witness ==
  \E c \in Channels :
    /\ Len(queues[getQueue(c)].queue) = QueueCap /\ queues[getQueue(c)].processing
    /\ channelStates[c].running /\ discarded = 1
    /\ notice = Busy(c)

NeedsId == {"update", "reply", "delete"}

\* C40: no update, reply or delete call is issued with an empty message
\* id.  After a failed post of a context the id is still unset and an edit
\* that runs next posts; after a failed "Stopping..." post no placeholder
\* is on record, and a run that ends stopped with none on record posts
\* "Stopped" as a new message.
C40_NoCallWithEmptyId ==
  /\ [](\A j \in JobIds :
         /\ \A s \in ctxs[j].active : s.call.kind \in NeedsId => s.call.id # 0
         /\ (jobs[j].pc = "stopped" /\ jobs[j].call.kind \in NeedsId) =>
              jobs[j].call.id # 0)
  /\ [][ \A j \in JobIds : \A s \in ctxs[j].active :
          (s.call.kind = "post" /\ StepReturn(j, s, FALSE, FALSE)) =>
            /\ ctxs'[j].messageId = 0
            /\ \A s2 \in ctxs'[j].active :
                 s2.op \in {"respond", "replaceMessage"} => s2.call.kind = "post" ]_vars
  /\ [][ \A c \in Channels :
          /\ StopPostReturn(c, FALSE) => channelStates'[c].stopMessageTs = 0
          /\ \A j \in JobIds :
               ( /\ jobs[j].channel = c /\ channelStates[c].stopMessageTs = 0
                 /\ jobs[j].pc # "stopped" /\ jobs'[j].pc = "stopped" ) =>
                 jobs'[j].call = Call("post", 0, <<"Stopped">>) ]_vars

\* The only "Stopping..." post of a run failed and the run, whose own
\* message has its id, ends with "Stopped" as a new post.
C40_Witness ==
  \E j \in JobIds :
    /\ jobs[j].pc = "stopped" /\ jobs[j].call.kind = "post"
    /\ faults = 1 /\ Stoppings(jobs[j].channel) = {} /\ stopPosts[jobs[j].channel] = 0
    /\ ctxs[j].messageId # 0

==========================================================================
